---- MODULE Spec2Model ----
(***************************************************************************)
(* A model of hdfscontents: the durable file I/O layer (hdfsio.py), the    *)
(* document store (hdfsmanager.py) and the checkpoint store                *)
(* (hdfscheckpoints.py) on top of an HDFS namespace.                       *)
(*                                                                         *)
(* A file's content is a sequence of chunks.  A path is a sequence of      *)
(* names, a name a sequence of string tokens ("n", ".ipynb"), so that the  *)
(* string operations of the code (prefixing ".~", appending ".invalid",    *)
(* splitting the extension) are computed and not assumed.                  *)
(*                                                                         *)
(* Every request is a sequence of backend calls; each backend call is one  *)
(* step of the model.  With multi = FALSE one server handles one request   *)
(* at a time (the handlers are synchronous).  With multi = TRUE two        *)
(* servers share the namespace and their backend calls interleave.         *)
(***************************************************************************)
EXTENDS Integers, Sequences, FiniteSets, TLC

\* Bounds of the model.
MaxLen == 2      \* chunks in a document written by a save
MaxChunk == 2    \* distinct body chunks
MaxOps == 2      \* requests started when two servers share the namespace

Procs == {"w1", "w2"}

(***************************************************************************)
(* Names, paths and contents                                               *)
(***************************************************************************)
Last(s) == s[Len(s)]
Front(s) == SubSeq(s, 1, Len(s) - 1)

\* Tokens that begin with a dot.
DotTokens == {".~", ".ipynb", ".invalid", ".ipynb_checkpoints"}

checkpoint_dir == <<".ipynb_checkpoints">>
root_dir == <<>>

DirName == <<"d">>
NbName == <<"n", ".ipynb">>

\* API paths of the requests.  An empty segment stands for a redundant slash.
NbApi == <<DirName, NbName>>
NbApiSlashed == <<<<>>, DirName, NbName, <<>>>>
NbApiInner == <<DirName, <<>>, NbName>>
InvalidApi == <<DirName, NbName \o <<".invalid">>>>
DirApi == <<DirName>>

\* str.strip('/')
RECURSIVE strip(_)
strip(apath) ==
    IF apath = <<>> THEN <<>>
    ELSE IF Head(apath) = <<>> THEN strip(Tail(apath))
    ELSE IF Last(apath) = <<>> THEN strip(Front(apath))
    ELSE apath

\* to_os_path: split on '/', drop the empty parts, join under the root
to_os_path(apath, root) == root \o SelectSeq(strip(apath), LAMBDA seg : seg # <<>>)

path_to_intermediate(path) == Front(path) \o << <<".~">> \o Last(path) >>

path_to_invalid(path) == Front(path) \o << Last(path) \o <<".invalid">> >>

\* os.path.splitext on a name: the extension is a last dotted token that is
\* not the whole name
splitext(name) ==
    IF Len(name) >= 2 /\ Last(name) \in DotTokens
    THEN <<Front(name), <<Last(name)>>>>
    ELSE <<name, <<>>>>

\* The path computed by checkpoint_path (the directory it ensures is CpDirOf)
CpDirOf(apath) == to_os_path(Front(strip(apath)), root_dir) \o <<checkpoint_dir>>

CpFileOf(checkpoint_id, apath) ==
    LET name == Last(strip(apath))
        se == splitext(name)
    IN  CpDirOf(apath) \o << se[1] \o <<"-", checkpoint_id>> \o se[2] >>

_hdfs_is_hidden(path) == \E i \in 1..Len(path) : path[i] # <<>> /\ path[i][1] \in DotTokens

endswith_ipynb(apath) == apath # <<>> /\ Last(apath) # <<>> /\ Last(Last(apath)) = ".ipynb"

\* nbformat.writes / nbformat.read: a notebook is its body chunks; its
\* serialization ends with the chunk 0 that closes the JSON document, and
\* nothing parses unless that chunk is its last and only closing chunk.
NbWrites(nb) == nb \o <<0>>

Parseable(data) ==
    /\ Len(data) > 0
    /\ Last(data) = 0
    /\ \A i \in 1..(Len(data) - 1) : data[i] # 0

NbRead(data) == Front(data)

\* str.encode('utf8') for code points below 2048: one byte below 128, else a
\* lead byte and a continuation byte
RECURSIVE encode_utf8(_)
encode_utf8(text) ==
    IF text = <<>> THEN <<>>
    ELSE LET c == Head(text) IN
         (IF c < 128 THEN <<c>> ELSE <<192 + (c \div 64), 128 + (c % 64)>>)
            \o encode_utf8(Tail(text))

\* bytes.decode('utf8') on bytes below 224: [ok, text]; a byte from 128 up
\* decodes only as a lead byte 194..223 followed by a continuation 128..191
RECURSIVE decode_utf8(_)
decode_utf8(data) ==
    IF data = <<>> THEN [ok |-> TRUE, text |-> <<>>]
    ELSE LET b == Head(data) IN
         IF b < 128
         THEN LET r == decode_utf8(Tail(data)) IN
              [ok |-> r.ok, text |-> IF r.ok THEN <<b>> \o r.text ELSE <<>>]
         ELSE IF b >= 194 /\ b <= 223 /\ Len(data) >= 2 /\ data[2] >= 128 /\ data[2] <= 191
         THEN LET r == decode_utf8(Tail(Tail(data))) IN
              [ok |-> r.ok,
               text |-> IF r.ok THEN <<(b - 192) * 64 + (data[2] - 128)>> \o r.text ELSE <<>>]
         ELSE [ok |-> FALSE, text |-> <<>>]

\* base64 text is a sequence of sextets 0..63, the pad '=' and the newline
B64Pad == 64
B64Newline == 65

\* base64.encodebytes: four characters for every three bytes, the last group
\* padded, and a newline after the line (none for no bytes)
RECURSIVE b64groups(_)
b64groups(data) ==
    IF data = <<>> THEN <<>>
    ELSE IF Len(data) = 1
    THEN <<data[1] \div 4, (data[1] % 4) * 16, B64Pad, B64Pad>>
    ELSE IF Len(data) = 2
    THEN <<data[1] \div 4, (data[1] % 4) * 16 + (data[2] \div 16),
           (data[2] % 16) * 4, B64Pad>>
    ELSE <<data[1] \div 4, (data[1] % 4) * 16 + (data[2] \div 16),
           (data[2] % 16) * 4 + (data[3] \div 64), data[3] % 64>>
         \o b64groups(SubSeq(data, 4, Len(data)))

encodebytes(data) == IF data = <<>> THEN <<>> ELSE b64groups(data) \o <<B64Newline>>

\* base64.decodebytes: [ok, data]; newlines are skipped, the characters left
\* must come in groups of four, padded only at the end of the last group
RECURSIVE b64ungroup(_)
b64ungroup(chars) ==
    IF chars = <<>> THEN [ok |-> TRUE, data |-> <<>>]
    ELSE IF Len(chars) < 4 \/ chars[1] = B64Pad \/ chars[2] = B64Pad
            \/ (chars[3] = B64Pad /\ chars[4] # B64Pad)
    THEN [ok |-> FALSE, data |-> <<>>]
    ELSE IF chars[3] = B64Pad
    THEN [ok |-> Len(chars) = 4,
          data |-> <<chars[1] * 4 + (chars[2] \div 16)>>]
    ELSE IF chars[4] = B64Pad
    THEN [ok |-> Len(chars) = 4,
          data |-> <<chars[1] * 4 + (chars[2] \div 16),
                     (chars[2] % 16) * 16 + (chars[3] \div 4)>>]
    ELSE LET r == b64ungroup(SubSeq(chars, 5, Len(chars))) IN
         [ok |-> r.ok,
          data |-> <<chars[1] * 4 + (chars[2] \div 16),
                     (chars[2] % 16) * 16 + (chars[3] \div 4),
                     (chars[3] % 4) * 64 + chars[4]>> \o r.data]

decodebytes(chars) == b64ungroup(SelectSeq(chars, LAMBDA c : c # B64Newline))

\* The contents the requests save: notebooks of MaxLen chunks once
\* serialized, and a text of MaxLen characters
Notebooks == {[i \in 1..(MaxLen - 1) |-> c] : c \in 1..MaxChunk}
Texts == {[i \in 1..MaxLen |-> 1]}

\* Binary contents: up to MaxLen bytes out of an ASCII byte, a lead byte and
\* a continuation byte, sent as base64; and a base64 text cut short
ByteVals == {65, 200, 128}
BinaryContents == UNION {[1..n -> ByteVals] : n \in 0..MaxLen}
B64Texts == {encodebytes(b) : b \in BinaryContents}
B64Broken == <<16, 16, B64Pad>>

(***************************************************************************)
(* The backend namespace: a function from the existing paths to entries    *)
(***************************************************************************)
IsPrefix(p, q) == Len(p) <= Len(q) /\ SubSeq(q, 1, Len(p)) = p
Ancestors(p) == {SubSeq(p, 1, k) : k \in 0..(Len(p) - 1)}

FileEntry(data) == [kind |-> "file", data |-> data]
DirEntry == [kind |-> "directory", data |-> <<>>]

EmptyFS == [q \in {root_dir} |-> DirEntry]

hdfs_exists(f, p) == p \in DOMAIN f

_hdfs_dir_exists(f, p) == p \in DOMAIN f /\ f[p].kind = "directory"

hdfs_file_exists(f, p) == p \in DOMAIN f /\ f[p].kind = "file"

\* open_file(p, 'w') succeeds unless p is a directory or lies under a file
CanOpenW(f, p) ==
    /\ ~_hdfs_dir_exists(f, p)
    /\ \A a \in Ancestors(p) : ~hdfs_file_exists(f, a)

\* open_file(p, 'w'): creates or truncates p, creating missing parents
hdfs_open_w(f, p) ==
    [q \in DOMAIN f \cup {p} \cup Ancestors(p) |->
        IF q = p THEN FileEntry(<<>>)
        ELSE IF q \in DOMAIN f THEN f[q] ELSE DirEntry]

\* f.write(chunk) on an open handle
hdfs_append(f, p, chunk) == [f EXCEPT ![p] = FileEntry(Append(f[p].data, chunk))]

\* create_directory / mkdir: creates p and its missing parents
hdfs_mkdirs(f, p) ==
    [q \in DOMAIN f \cup {p} \cup Ancestors(p) |->
        IF q \in DOMAIN f THEN f[q] ELSE DirEntry]

\* delete / rm: removes p and everything under it
hdfs_delete(f, p) == [q \in {r \in DOMAIN f : ~IsPrefix(p, r)} |-> f[q]]

\* move succeeds when src exists, dst does not, dst's parent is a directory
\* and dst is not inside src
CanMove(f, src, dst) ==
    /\ src \in DOMAIN f
    /\ dst \notin DOMAIN f
    /\ dst # <<>>
    /\ _hdfs_dir_exists(f, Front(dst))
    /\ ~IsPrefix(src, dst)

hdfs_move(f, src, dst) ==
    LET moved == {r \in DOMAIN f : IsPrefix(src, r)}
        rest == DOMAIN f \ moved
        to(r) == dst \o SubSeq(r, Len(src) + 1, Len(r))
        from(q) == src \o SubSeq(q, Len(dst) + 1, Len(q))
    IN  [q \in rest \cup {to(r) : r \in moved} |->
            IF q \in rest THEN f[q] ELSE f[from(q)]]

\* list_directory / ls: the names of the entries of p
hdfs_ls(f, p) == {Last(q) : q \in {r \in DOMAIN f : Len(r) = Len(p) + 1 /\ IsPrefix(p, r)}}

(***************************************************************************)
(* State                                                                   *)
(***************************************************************************)
VARIABLES
    fs,                  \* the HDFS namespace
    proc,                \* per server: the request in progress and its locals
    use_atomic_writing,  \* HDFSManagerMixin.use_atomic_writing
    multi,               \* whether two servers share the namespace
    nops,                \* requests started so far (counted when multi)
    obs                  \* what an observer of the requests remembers

vars == <<fs, proc, use_atomic_writing, multi, nops, obs>>

Idle ==
    [pc |-> "idle", op |-> "none", path |-> <<>>, path2 |-> <<>>, hpath |-> <<>>, hpath2 |-> <<>>,
     typ |-> "none", fmt |-> "none", rfmt |-> "none", arg |-> <<>>, cid |-> "none", content |-> <<>>, woff |-> 0,
     src |-> <<>>, dst |-> <<>>, coff |-> 0, dirs |-> <<>>, stk |-> <<>>,
     status |-> "none", cause |-> "none", result |-> <<>>, recovered |-> 0,
     pre |-> EmptyFS]

\* The observer remembers two things the properties are about:
\*   created: the document's content when its checkpoint was last created,
\*            for as long as only successful saves and restores of that
\*            document have followed;
\*   saved:   the content and format last saved to a generic file, until
\*            a request other than a get starts;
\*   stopped: the old and the new content of a write whose server stopped
\*            after the backup, with the target partially written, until
\*            the next request has returned.
NoCreated == [valid |-> FALSE, path |-> <<>>, data |-> <<>>]
NoStopped == [valid |-> FALSE, path |-> <<>>, old |-> <<>>, new |-> <<>>]
NoSaved == [valid |-> FALSE, path |-> <<>>, fmt |-> "none", arg |-> <<>>]

Init ==
    /\ fs = EmptyFS
    /\ proc = [w \in Procs |-> Idle]
    /\ use_atomic_writing \in BOOLEAN
    /\ multi = FALSE
    /\ nops = 0
    /\ obs = [created |-> NoCreated, stopped |-> NoStopped, saved |-> NoSaved]

\* A request starts on an idle server; a lone server is w1 and takes one
\* request at a time.
CanStart(self) ==
    /\ proc[self].pc = "idle"
    /\ IF multi THEN nops < MaxOps
       ELSE self = "w1" /\ \A w \in Procs : proc[w].pc = "idle"

Begin(op, apath) ==
    [Idle EXCEPT !.op = op, !.path = strip(apath),
                 !.hpath = to_os_path(strip(apath), root_dir), !.pre = fs]

ObsCreated(old, new) ==
    LET starting == old.pc = "idle" /\ new.pc # "idle"
        finishing == old.pc # "done" /\ new.pc = "done"
        crashing == old.pc \notin {"idle", "done"} /\ new.pc = "idle"
    IN  IF finishing /\ new.op = "create_checkpoint" /\ new.status = "ok"
           /\ hdfs_file_exists(fs, new.hpath)
        THEN [valid |-> TRUE, path |-> new.hpath, data |-> fs[new.hpath].data]
        ELSE IF crashing THEN NoCreated
        ELSE IF starting /\ ~(new.op \in {"save", "restore_checkpoint"}
                               /\ new.hpath = obs.created.path)
        THEN NoCreated
        ELSE IF finishing /\ new.status # "ok" THEN NoCreated
        ELSE obs.created

ObsStopped(old, new) ==
    LET crashing == old.pc \notin {"idle", "done"} /\ new.pc = "idle"
        returning == old.pc = "done"
    IN  IF crashing /\ old.op = "save" /\ old.pc = "aw_write" /\ old.woff > 0
           /\ use_atomic_writing /\ hdfs_file_exists(old.pre, old.hpath)
        THEN [valid |-> TRUE, path |-> old.hpath,
              old |-> old.pre[old.hpath].data, new |-> old.content]
        ELSE IF crashing \/ returning THEN NoStopped
        ELSE obs.stopped

ObsSaved(old, new) ==
    LET starting == old.pc = "idle" /\ new.pc # "idle"
        finishing == old.pc # "done" /\ new.pc = "done"
        crashing == old.pc \notin {"idle", "done"} /\ new.pc = "idle"
    IN  IF finishing /\ new.op = "save" /\ new.typ = "file" /\ new.status = "ok"
        THEN [valid |-> TRUE, path |-> new.hpath, fmt |-> new.fmt, arg |-> new.arg]
        ELSE IF crashing \/ (starting /\ new.op # "get") THEN NoSaved
        ELSE obs.saved

Set(self, rec) ==
    /\ proc' = [proc EXCEPT ![self] = rec]
    /\ nops' = IF multi /\ proc[self].pc = "idle" THEN nops + 1 ELSE nops
    /\ obs' = [created |-> ObsCreated(proc[self], rec),
               stopped |-> ObsStopped(proc[self], rec),
               saved |-> ObsSaved(proc[self], rec)]
    /\ UNCHANGED <<use_atomic_writing, multi>>

Done(p, status, cause, result) ==
    [p EXCEPT !.pc = "done", !.status = status, !.cause = cause,
              !.result = result, !.stk = <<>>, !.dirs = <<>>]

\* An error of the backend leaving the request: save wraps it as SaveFailed
\* (hdfsmanager.py:320), rename_file as RenameFailed (hdfsmanager.py:385),
\* the other operations let it through.
Raise(p, cause) ==
    Done(p, CASE p.op = "save" -> "SaveFailed"
              [] p.op = "rename" -> "RenameFailed"
              [] OTHER -> "BackendError", cause, <<>>)

\* Enter and leave the helpers (copy, move, ensure-directory): stk holds the
\* labels to continue at; with none left the request has succeeded.
Call(p, label, ret) == [p EXCEPT !.pc = label, !.stk = ret \o p.stk]

Ret(p) ==
    IF p.stk = <<>> THEN Done(p, "ok", "none", p.result)
    ELSE [p EXCEPT !.pc = Head(p.stk), !.stk = Tail(p.stk)]

(***************************************************************************)
(* hdfs_copy_file (hdfsio.py:49)                                           *)
(***************************************************************************)
CopyOpenDst(self) ==
    LET p == proc[self] IN
    /\ p.pc = "cp_open_dst"
    /\ IF CanOpenW(fs, p.dst)
       THEN /\ fs' = hdfs_open_w(fs, p.dst)
            /\ Set(self, [p EXCEPT !.pc = "cp_open_src"])
       ELSE /\ fs' = fs
            /\ Set(self, Raise(p, "open_w"))

CopyOpenSrc(self) ==
    LET p == proc[self] IN
    /\ p.pc = "cp_open_src"
    /\ fs' = fs
    /\ IF hdfs_file_exists(fs, p.src)
       THEN Set(self, [p EXCEPT !.pc = "cp_chunk", !.coff = 0])
       ELSE Set(self, Raise(p, "open_r"))

CopyChunk(self) ==
    LET p == proc[self] IN
    /\ p.pc = "cp_chunk"
    /\ IF ~hdfs_file_exists(fs, p.src) \/ ~hdfs_file_exists(fs, p.dst)
       THEN /\ fs' = fs
            /\ Set(self, Raise(p, "copy"))
       ELSE IF p.coff < Len(fs[p.src].data)
       THEN /\ fs' = hdfs_append(fs, p.dst, fs[p.src].data[p.coff + 1])
            /\ Set(self, [p EXCEPT !.coff = p.coff + 1])
       ELSE /\ fs' = fs
            /\ Set(self, Ret(p))

(***************************************************************************)
(* _hdfs_move_file (hdfsio.py:241)                                         *)
(***************************************************************************)
MoveCheck(self) ==
    LET p == proc[self] IN
    /\ p.pc = "mv_check"
    /\ fs' = fs
    /\ Set(self, [p EXCEPT !.pc = IF hdfs_exists(fs, p.dst) THEN "mv_delete" ELSE "mv_move"])

MoveDelete(self) ==
    LET p == proc[self] IN
    /\ p.pc = "mv_delete"
    /\ IF hdfs_exists(fs, p.dst)
       THEN /\ fs' = hdfs_delete(fs, p.dst)
            /\ Set(self, [p EXCEPT !.pc = "mv_move"])
       ELSE /\ fs' = fs
            /\ Set(self, Raise(p, "delete"))

MoveMove(self) ==
    LET p == proc[self] IN
    /\ p.pc = "mv_move"
    /\ IF CanMove(fs, p.src, p.dst)
       THEN /\ fs' = hdfs_move(fs, p.src, p.dst)
            /\ Set(self, Ret(p))
       ELSE /\ fs' = fs
            /\ Set(self, Raise(p, "move"))

(***************************************************************************)
(* _hdfs_ensure_dir_exists (hdfsio.py:182), for each directory of dirs     *)
(***************************************************************************)
EnsureNext(p) ==
    IF Len(p.dirs) > 1 THEN [p EXCEPT !.pc = "ed_check", !.dirs = Tail(p.dirs)]
    ELSE Ret([p EXCEPT !.dirs = <<>>])

EnsureCheck(self) ==
    LET p == proc[self]
        dir == Head(p.dirs)
    IN
    /\ p.pc = "ed_check"
    /\ fs' = fs
    /\ IF ~hdfs_exists(fs, dir) THEN Set(self, [p EXCEPT !.pc = "ed_create"])
       ELSE IF ~_hdfs_dir_exists(fs, dir) THEN Set(self, Raise(p, "not_a_directory"))
       ELSE Set(self, EnsureNext(p))

\* A creation that takes an existing directory for a failure
EnsureCreate_Strict(self) ==
    LET p == proc[self]
        dir == Head(p.dirs)
    IN
    /\ p.pc = "ed_create"
    /\ IF CanOpenW(fs, dir) /\ ~hdfs_exists(fs, dir)
       THEN /\ fs' = hdfs_mkdirs(fs, dir)
            /\ Set(self, EnsureNext(p))
       ELSE /\ fs' = fs
            /\ Set(self, Raise(p, "mkdir"))

EnsureCreate(self) ==
    LET p == proc[self]
        dir == Head(p.dirs)
    IN
    /\ p.pc = "ed_create"
    /\ IF CanOpenW(fs, dir) \/ _hdfs_dir_exists(fs, dir)
       THEN /\ fs' = hdfs_mkdirs(fs, dir)
            /\ Set(self, EnsureNext(p))
       ELSE /\ fs' = fs
            /\ Set(self, Raise(p, "mkdir"))

(***************************************************************************)
(* atomic_writing / _simple_writing (hdfsio.py:74, 113), entered through   *)
(* HDFSManagerMixin.atomic_writing (hdfsio.py:253)                         *)
(***************************************************************************)
\* The write scope is entered: with atomic writing, at the existence test
\* before the backup; without, at the open of the target.
EnterWrite(p, bcontent) ==
    [p EXCEPT !.pc = IF use_atomic_writing THEN "aw_check" ELSE "aw_open",
              !.content = bcontent, !.woff = 0]

\* hdfsio.py:91-92: back the existing file up to the intermediate path
AtomicCheck(self) ==
    LET p == proc[self] IN
    /\ p.pc = "aw_check"
    /\ fs' = fs
    /\ IF hdfs_file_exists(fs, p.hpath)
       THEN Set(self, Call([p EXCEPT !.src = p.hpath,
                                     !.dst = path_to_intermediate(p.hpath)],
                           "cp_open_dst", <<"aw_open">>))
       ELSE Set(self, [p EXCEPT !.pc = "aw_open"])

\* hdfsio.py:94 / 129: open the target itself for writing
WriteOpen(self) ==
    LET p == proc[self] IN
    /\ p.pc = "aw_open"
    /\ IF CanOpenW(fs, p.hpath)
       THEN /\ fs' = hdfs_open_w(fs, p.hpath)
            /\ Set(self, [p EXCEPT !.pc = IF Len(p.content) = 0 THEN "aw_close" ELSE "aw_write"])
       ELSE /\ fs' = fs
            /\ Set(self, Raise(p, "open_w"))

\* The body of the scope: f.write, chunk after chunk
WriteChunk(self) ==
    LET p == proc[self] IN
    /\ p.pc = "aw_write"
    /\ hdfs_file_exists(fs, p.hpath)
    /\ fs' = hdfs_append(fs, p.hpath, p.content[p.woff + 1])
    /\ Set(self, [p EXCEPT !.woff = p.woff + 1,
                           !.pc = IF p.woff + 1 = Len(p.content) THEN "aw_close" ELSE "aw_write"])

\* An error escapes the scope after part of the content was written:
\* atomic_writing closes the handle and rolls back (hdfsio.py:97-101),
\* _simple_writing closes it and re-raises (hdfsio.py:133-136).
WriteFault(self) ==
    LET p == proc[self] IN
    /\ p.pc = "aw_write"
    /\ fs' = fs
    /\ IF use_atomic_writing
       THEN Set(self, [p EXCEPT !.pc = "rb_delete"])
       ELSE Set(self, Raise(p, "write_fault"))

\* hdfs_replace_file (hdfsio.py:62): delete dst, then move src onto it
RollbackDelete(self) ==
    LET p == proc[self] IN
    /\ p.pc = "rb_delete"
    /\ IF hdfs_exists(fs, p.hpath)
       THEN /\ fs' = hdfs_delete(fs, p.hpath)
            /\ Set(self, [p EXCEPT !.pc = "rb_move"])
       ELSE /\ fs' = fs
            /\ Set(self, Raise(p, "rollback"))

\* A rollback that closes the handle and re-raises without restoring
RollbackMove_NoRestore(self) ==
    LET p == proc[self] IN
    /\ p.pc = "rb_move"
    /\ fs' = hdfs_open_w(fs, p.hpath)
    /\ Set(self, Raise(p, "write_fault"))

\* A rollback that copies the intermediate back and leaves it in place
RollbackMove_KeepIntermediate(self) ==
    LET p == proc[self]
        tmp == path_to_intermediate(p.hpath)
    IN
    /\ p.pc = "rb_move"
    /\ IF CanMove(fs, tmp, p.hpath)
       THEN /\ fs' = [hdfs_open_w(fs, p.hpath) EXCEPT ![p.hpath] = fs[tmp]]
            /\ Set(self, Raise(p, "write_fault"))
       ELSE /\ fs' = fs
            /\ Set(self, Raise(p, "rollback"))

RollbackMove(self) ==
    LET p == proc[self]
        tmp == path_to_intermediate(p.hpath)
    IN
    /\ p.pc = "rb_move"
    /\ IF CanMove(fs, tmp, p.hpath)
       THEN /\ fs' = hdfs_move(fs, tmp, p.hpath)
            /\ Set(self, Raise(p, "write_fault"))
       ELSE /\ fs' = fs
            /\ Set(self, Raise(p, "rollback"))

\* What save does after the write scope (hdfsmanager.py:308-310, 324-329)
AfterWrite(p) ==
    IF p.typ = "notebook"
    THEN Call([p EXCEPT !.dirs = <<CpDirOf(p.path)>>],
              "ed_check", <<"sv_list">>)
    ELSE [p EXCEPT !.pc = "sv_get"]

\* hdfsio.py:104-106 / 139-141: flush, close, chmod
WriteClose(self) ==
    LET p == proc[self] IN
    /\ p.pc = "aw_close"
    /\ fs' = fs
    /\ IF use_atomic_writing
       THEN Set(self, [p EXCEPT !.pc = "aw_cleanup"])
       ELSE Set(self, AfterWrite(p))

\* A cleanup that removes only the backup this write made itself
AtomicCleanup_OwnBackupOnly(self) ==
    LET p == proc[self]
        tmp == path_to_intermediate(p.hpath)
    IN
    /\ p.pc = "aw_cleanup"
    /\ fs' = IF hdfs_file_exists(p.pre, p.hpath) /\ hdfs_file_exists(fs, tmp)
             THEN hdfs_delete(fs, tmp) ELSE fs
    /\ Set(self, AfterWrite(p))

\* hdfsio.py:109-110: remove the backup copy
AtomicCleanup(self) ==
    LET p == proc[self]
        tmp == path_to_intermediate(p.hpath)
    IN
    /\ p.pc = "aw_cleanup"
    /\ fs' = IF hdfs_file_exists(fs, tmp) THEN hdfs_delete(fs, tmp) ELSE fs
    /\ Set(self, AfterWrite(p))

(***************************************************************************)
(* HDFSContentsManager.save (hdfsmanager.py:283)                           *)
(***************************************************************************)
SaveModels ==
    {[type |-> "notebook", has_content |-> TRUE, content |-> nb, format |-> "none"] :
        nb \in Notebooks}
    \cup {[type |-> "file", has_content |-> TRUE, content |-> t, format |-> "text"] :
        t \in Texts}
    \cup {[type |-> "directory", has_content |-> FALSE, content |-> <<>>, format |-> "none"]}

SaveRequests ==
    {<<NbApi, m>> : m \in {x \in SaveModels : x.type = "notebook"}}
    \cup {<<NbApi, m>> : m \in {x \in SaveModels : x.type = "file"}}
    \cup {<<DirApi, m>> : m \in {x \in SaveModels : x.type = "directory"}}

\* The saves that are refused: no type, no content, a type that is not
\* handled, a format that is neither text nor base64, a hidden directory
HiddenDirApi == <<DirName, checkpoint_dir>>
BadSaves ==
    {<<NbApi, [type |-> "none", has_content |-> TRUE, content |-> <<>>, format |-> "none"]>>,
     <<NbApi, [type |-> "file", has_content |-> FALSE, content |-> <<>>, format |-> "text"]>>,
     <<NbApi, [type |-> "symlink", has_content |-> TRUE, content |-> <<>>, format |-> "none"]>>,
     <<HiddenDirApi,
       [type |-> "directory", has_content |-> FALSE, content |-> <<>>, format |-> "none"]>>}
    \cup {<<NbApi, [type |-> "file", has_content |-> TRUE, content |-> t, format |-> "json"]>> :
            t \in Texts}

\* A save that opens the target before it looks at the format
StartSave_OpenFirst(self, apath, model) ==
    LET p0 == Begin("save", apath)
        p == [p0 EXCEPT !.typ = model.type, !.fmt = model.format]
    IN
    /\ CanStart(self)
    /\ IF model.type = "none"
       THEN fs' = fs /\ Set(self, Done(p, "MissingField", "type", <<>>))
       ELSE IF ~model.has_content /\ model.type # "directory"
       THEN fs' = fs /\ Set(self, Done(p, "MissingField", "content", <<>>))
       ELSE IF model.type = "notebook"
       THEN fs' = fs /\ Set(self, EnterWrite(p, encode_utf8(NbWrites(model.content))))
       ELSE IF model.type = "file"
       THEN IF model.format \notin {"text", "base64"}
            THEN /\ fs' = IF CanOpenW(fs, p.hpath) THEN hdfs_open_w(fs, p.hpath) ELSE fs
                 /\ Set(self, Done(p, "InvalidArgument", "format", <<>>))
            ELSE fs' = fs /\ Set(self, EnterWrite([p EXCEPT !.arg = model.content],
                                                  encode_utf8(model.content)))
       ELSE IF model.type = "directory"
       THEN IF _hdfs_is_hidden(p.hpath)
            THEN fs' = fs /\ Set(self, Done(p, "InvalidArgument", "hidden", <<>>))
            ELSE fs' = fs /\ Set(self, [p EXCEPT !.pc = "sd_check"])
       ELSE fs' = fs /\ Set(self, Done(p, "InvalidArgument", "type", <<>>))

StartSave(self, apath, model) ==
    LET p0 == Begin("save", apath)
        p == [p0 EXCEPT !.typ = model.type, !.fmt = model.format]
    IN
    /\ CanStart(self)
    /\ fs' = fs
    /\ IF model.type = "none" THEN Set(self, Done(p, "MissingField", "type", <<>>))
       ELSE IF ~model.has_content /\ model.type # "directory"
       THEN Set(self, Done(p, "MissingField", "content", <<>>))
       ELSE IF model.type = "notebook"
       THEN Set(self, EnterWrite(p, encode_utf8(NbWrites(model.content))))
       ELSE IF model.type = "file"
       THEN IF model.format \notin {"text", "base64"}
            THEN Set(self, Done(p, "InvalidArgument", "format", <<>>))
            ELSE IF model.format = "text"
            THEN Set(self, EnterWrite([p EXCEPT !.arg = model.content],
                                      encode_utf8(model.content)))
            ELSE IF ~decodebytes(model.content).ok
            THEN Set(self, Done(p, "EncodingError", "base64", <<>>))
            ELSE Set(self, EnterWrite([p EXCEPT !.arg = model.content],
                                      decodebytes(model.content).data))
       ELSE IF model.type = "directory"
       THEN IF _hdfs_is_hidden(p.hpath)
            THEN Set(self, Done(p, "InvalidArgument", "hidden", <<>>))
            ELSE Set(self, [p EXCEPT !.pc = "sd_check"])
       ELSE Set(self, Done(p, "InvalidArgument", "type", <<>>))

\* _save_directory (hdfsmanager.py:229)
SaveDirCheck(self) ==
    LET p == proc[self] IN
    /\ p.pc = "sd_check"
    /\ fs' = fs
    /\ IF ~hdfs_exists(fs, p.hpath) THEN Set(self, [p EXCEPT !.pc = "sd_mkdir"])
       ELSE IF ~_hdfs_dir_exists(fs, p.hpath)
       THEN Set(self, Done(p, "NotADirectory", "none", <<>>))
       ELSE Set(self, [p EXCEPT !.pc = "sv_get"])

SaveDirMkdir(self) ==
    LET p == proc[self] IN
    /\ p.pc = "sd_mkdir"
    /\ IF CanOpenW(fs, p.hpath) \/ _hdfs_dir_exists(fs, p.hpath)
       THEN /\ fs' = hdfs_mkdirs(fs, p.hpath)
            /\ Set(self, [p EXCEPT !.pc = "sv_get"])
       ELSE /\ fs' = fs
            /\ Set(self, Done(p, "PermissionDenied", "mkdir", <<>>))

\* A save that makes a checkpoint every time
SaveListCheckpoints_Always(self) ==
    LET p == proc[self] IN
    /\ p.pc = "sv_list"
    /\ fs' = fs
    /\ Set(self, Call([p EXCEPT !.dirs = <<CpDirOf(p.path)>>], "ed_check", <<"cc_copy", "sv_get">>))

\* A save that never makes a checkpoint
SaveListCheckpoints_Never(self) ==
    LET p == proc[self] IN
    /\ p.pc = "sv_list"
    /\ fs' = fs
    /\ Set(self, [p EXCEPT !.pc = "sv_get"])

\* hdfsmanager.py:309-310: one checkpoint should always exist for notebooks
SaveListCheckpoints(self) ==
    LET p == proc[self]
        cp == CpFileOf("checkpoint", p.path)
    IN
    /\ p.pc = "sv_list"
    /\ fs' = fs
    /\ IF ~hdfs_file_exists(fs, cp)
       THEN Set(self, Call([p EXCEPT !.dirs = <<CpDirOf(p.path)>>], "ed_check", <<"cc_copy", "sv_get">>))
       ELSE Set(self, [p EXCEPT !.pc = "sv_get"])

\* hdfsmanager.py:329: the model returned is fetched again
SaveGet(self) ==
    LET p == proc[self] IN
    /\ p.pc = "sv_get"
    /\ fs' = fs
    /\ IF hdfs_exists(fs, p.hpath)
       THEN Set(self, Done(p, "ok", "none", <<>>))
       ELSE Set(self, Done(p, "NotFound", "none", <<>>))

(***************************************************************************)
(* HDFSCheckpoints (hdfscheckpoints.py)                                    *)
(***************************************************************************)
CheckpointIds == {"checkpoint", "other"}

\* What list_checkpoints returns (hdfscheckpoints.py:80-86): the ids listed
list_checkpoints(f, apath) ==
    IF hdfs_file_exists(f, CpFileOf("checkpoint", apath)) THEN <<"checkpoint">> ELSE <<>>

\* A create that keeps an existing checkpoint and writes a second one
CreateCopy_NewId(self) ==
    LET p == proc[self]
        id == IF hdfs_file_exists(fs, CpFileOf("checkpoint", p.path))
              THEN "other" ELSE "checkpoint"
    IN
    /\ p.pc = "cc_copy"
    /\ fs' = fs
    /\ Set(self, Call([p EXCEPT !.src = p.hpath, !.dst = CpFileOf(id, p.path)],
                      "cp_open_dst", <<>>))

\* create_checkpoint (hdfscheckpoints.py:37), after checkpoint_path
CreateCopy(self) ==
    LET p == proc[self] IN
    /\ p.pc = "cc_copy"
    /\ fs' = fs
    /\ Set(self, Call([p EXCEPT !.src = p.hpath, !.dst = CpFileOf("checkpoint", p.path)],
                      "cp_open_dst", <<>>))

StartCreateCheckpoint(self, apath) ==
    LET p == Begin("create_checkpoint", apath) IN
    /\ CanStart(self)
    /\ fs' = fs
    /\ Set(self, Call([p EXCEPT !.cid = "checkpoint", !.dirs = <<CpDirOf(apath)>>],
                      "ed_check", <<"cc_copy">>))

\* restore_checkpoint (hdfscheckpoints.py:45)
StartRestoreCheckpoint(self, checkpoint_id, apath) ==
    LET p == Begin("restore_checkpoint", apath) IN
    /\ CanStart(self)
    /\ fs' = fs
    /\ Set(self, Call([p EXCEPT !.cid = checkpoint_id, !.dirs = <<CpDirOf(apath)>>,
                                !.src = CpFileOf(checkpoint_id, apath),
                                !.dst = to_os_path(apath, root_dir)],
                      "ed_check", <<"cp_open_dst">>))

\* rename_checkpoint (hdfscheckpoints.py:52)
StartRenameCheckpoint(self, checkpoint_id, old_path, new_path) ==
    LET p == Begin("rename_checkpoint", old_path) IN
    /\ CanStart(self)
    /\ fs' = fs
    /\ Set(self, Call([p EXCEPT !.cid = checkpoint_id,
                                !.hpath2 = to_os_path(new_path, root_dir),
                                !.dirs = <<CpDirOf(old_path), CpDirOf(new_path)>>,
                                !.src = CpFileOf(checkpoint_id, old_path),
                                !.dst = CpFileOf(checkpoint_id, new_path)],
                      "ed_check", <<"rc_check">>))

RenameCheckpointCheck(self) ==
    LET p == proc[self] IN
    /\ p.pc = "rc_check"
    /\ fs' = fs
    /\ IF hdfs_file_exists(fs, p.src)
       THEN Set(self, Call(p, "mv_check", <<>>))
       ELSE Set(self, Done(p, "ok", "none", <<>>))

\* delete_checkpoint (hdfscheckpoints.py:65)
StartDeleteCheckpoint(self, checkpoint_id, apath) ==
    LET p == Begin("delete_checkpoint", apath) IN
    /\ CanStart(self)
    /\ fs' = fs
    /\ Set(self, Call([p EXCEPT !.cid = checkpoint_id, !.dirs = <<CpDirOf(apath)>>,
                                !.src = CpFileOf(checkpoint_id, apath)],
                      "ed_check", <<"dc_check">>))

DeleteCheckpointCheck(self) ==
    LET p == proc[self] IN
    /\ p.pc = "dc_check"
    /\ fs' = fs
    /\ IF ~hdfs_file_exists(fs, p.src)
       THEN Set(self, Done(p, "CheckpointNotFound", "none", <<>>))
       ELSE Set(self, [p EXCEPT !.pc = "dc_rm"])

\* A delete that removes the checkpoint directory with all it holds
DeleteCheckpointRm_Dir(self) ==
    LET p == proc[self] IN
    /\ p.pc = "dc_rm"
    /\ fs' = hdfs_delete(fs, CpDirOf(p.path))
    /\ Set(self, Done(p, "ok", "none", <<>>))

DeleteCheckpointRm(self) ==
    LET p == proc[self] IN
    /\ p.pc = "dc_rm"
    /\ IF hdfs_exists(fs, p.src)
       THEN /\ fs' = hdfs_delete(fs, p.src)
            /\ Set(self, Done(p, "ok", "none", <<>>))
       ELSE /\ fs' = fs
            /\ Set(self, Raise(p, "delete"))

\* list_checkpoints (hdfscheckpoints.py:76): the ids listed
StartListCheckpoints(self, apath) ==
    LET p == Begin("list_checkpoints", apath) IN
    /\ CanStart(self)
    /\ fs' = fs
    /\ Set(self, Call([p EXCEPT !.cid = "checkpoint", !.dirs = <<CpDirOf(apath)>>,
                                !.src = CpFileOf("checkpoint", apath)],
                      "ed_check", <<"lc_check">>))

ListCheckpointsCheck(self) ==
    LET p == proc[self] IN
    /\ p.pc = "lc_check"
    /\ fs' = fs
    /\ Set(self, Done(p, "ok", "none", list_checkpoints(fs, p.path)))

(***************************************************************************)
(* HDFSContentsManager.delete_file (hdfsmanager.py:337)                    *)
(***************************************************************************)
StartDelete(self, apath) ==
    LET p == Begin("delete", apath) IN
    /\ CanStart(self)
    /\ fs' = fs
    /\ Set(self, [p EXCEPT !.pc = "df_check"])

\* A delete that removes a directory whatever it holds
DeleteCheck_NoGuard(self) ==
    LET p == proc[self] IN
    /\ p.pc = "df_check"
    /\ fs' = fs
    /\ IF ~hdfs_exists(fs, p.hpath)
       THEN Set(self, Done(p, "NotFound", "none", <<>>))
       ELSE Set(self, [p EXCEPT !.pc = "df_rm"])

DeleteCheck(self) ==
    LET p == proc[self] IN
    /\ p.pc = "df_check"
    /\ fs' = fs
    /\ IF _hdfs_dir_exists(fs, p.hpath)
       THEN IF \E entry \in hdfs_ls(fs, p.hpath) : entry # checkpoint_dir
            THEN Set(self, Done(p, "DirectoryNotEmpty", "none", <<>>))
            ELSE Set(self, [p EXCEPT !.pc = "df_rm"])
       ELSE IF ~hdfs_file_exists(fs, p.hpath)
       THEN Set(self, Done(p, "NotFound", "none", <<>>))
       ELSE Set(self, [p EXCEPT !.pc = "df_rm"])

\* hdfsmanager.py:355-366: rm, recursive for a directory; any failure is
\* reported as a 403
DeleteRm(self) ==
    LET p == proc[self] IN
    /\ p.pc = "df_rm"
    /\ IF hdfs_exists(fs, p.hpath)
       THEN /\ fs' = hdfs_delete(fs, p.hpath)
            /\ Set(self, Done(p, "ok", "none", <<>>))
       ELSE /\ fs' = fs
            /\ Set(self, Done(p, "PermissionDenied", "delete", <<>>))

(***************************************************************************)
(* HDFSContentsManager.rename_file (hdfsmanager.py:368)                    *)
(***************************************************************************)
StartRename(self, old_path, new_path) ==
    LET p0 == Begin("rename", old_path)
        p == [p0 EXCEPT !.path2 = strip(new_path),
                        !.hpath2 = to_os_path(strip(new_path), root_dir)]
    IN
    /\ CanStart(self)
    /\ fs' = fs
    /\ IF strip(new_path) = strip(old_path)
       THEN Set(self, Done(p, "ok", "none", <<>>))
       ELSE Set(self, [p EXCEPT !.pc = "rn_check"])

\* A rename that replaces whatever is at the new path
RenameCheck_Overwrite(self) ==
    LET p == proc[self]
        cleared == IF hdfs_exists(fs, p.hpath2) THEN hdfs_delete(fs, p.hpath2) ELSE fs
    IN
    /\ p.pc = "rn_check"
    /\ IF CanMove(cleared, p.hpath, p.hpath2)
       THEN /\ fs' = hdfs_move(cleared, p.hpath, p.hpath2)
            /\ Set(self, Done(p, "ok", "none", <<>>))
       ELSE /\ fs' = fs
            /\ Set(self, Raise(p, "move"))

RenameCheck(self) ==
    LET p == proc[self] IN
    /\ p.pc = "rn_check"
    /\ fs' = fs
    /\ IF hdfs_exists(fs, p.hpath2)
       THEN Set(self, Done(p, "AlreadyExists", "none", <<>>))
       ELSE Set(self, Call([p EXCEPT !.src = p.hpath, !.dst = p.hpath2], "mv_check", <<>>))

(***************************************************************************)
(* HDFSContentsManager.get (hdfsmanager.py:243) with content               *)
(***************************************************************************)
StartGet(self, apath, type, format) ==
    LET p == Begin("get", apath) IN
    /\ CanStart(self)
    /\ fs' = fs
    /\ Set(self, [p EXCEPT !.pc = "gt_check", !.typ = type, !.fmt = format])

\* The names a directory model lists (hdfsmanager.py:171-178)
DirListing(f, hpath) == {name \in hdfs_ls(f, hpath) : ~_hdfs_is_hidden(hpath \o <<name>>)}

\* A dispatch that takes every .ipynb name for a notebook
GetCheck_ByName(self) ==
    LET p == proc[self] IN
    /\ p.pc = "gt_check"
    /\ fs' = fs
    /\ IF ~hdfs_exists(fs, p.hpath) THEN Set(self, Done(p, "NotFound", "none", <<>>))
       ELSE IF _hdfs_dir_exists(fs, p.hpath)
       THEN IF p.typ \notin {"none", "directory"}
            THEN Set(self, Done(p, "BadType", "none", <<>>))
            ELSE IF _hdfs_is_hidden(p.hpath)
            THEN Set(self, Done(p, "NotFound", "hidden", <<>>))
            ELSE Set(self, Done([p EXCEPT !.typ = "directory"], "ok", "none",
                                DirListing(fs, p.hpath)))
       ELSE IF p.typ = "notebook" \/ (p.typ # "directory" /\ endswith_ipynb(p.path))
       THEN Set(self, [p EXCEPT !.pc = "nb_read", !.typ = "notebook"])
       ELSE IF p.typ = "directory"
       THEN Set(self, Done(p, "BadType", "none", <<>>))
       ELSE Set(self, [p EXCEPT !.pc = "rf_check", !.typ = "file"])

GetCheck(self) ==
    LET p == proc[self] IN
    /\ p.pc = "gt_check"
    /\ fs' = fs
    /\ IF ~hdfs_exists(fs, p.hpath) THEN Set(self, Done(p, "NotFound", "none", <<>>))
       ELSE IF _hdfs_dir_exists(fs, p.hpath)
       THEN IF p.typ \notin {"none", "directory"}
            THEN Set(self, Done(p, "BadType", "none", <<>>))
            ELSE IF _hdfs_is_hidden(p.hpath)
            THEN Set(self, Done(p, "NotFound", "hidden", <<>>))
            ELSE Set(self, Done([p EXCEPT !.typ = "directory"], "ok", "none",
                                DirListing(fs, p.hpath)))
       ELSE IF p.typ = "notebook" \/ (p.typ = "none" /\ endswith_ipynb(p.path))
       THEN Set(self, [p EXCEPT !.pc = "nb_read", !.typ = "notebook"])
       ELSE IF p.typ = "directory"
       THEN Set(self, Done(p, "BadType", "none", <<>>))
       ELSE Set(self, [p EXCEPT !.pc = "rf_check", !.typ = "file"])

utf8_valid(data) == decode_utf8(data).ok

\* _read_file (hdfsio.py:326)
ReadFileCheck(self) ==
    LET p == proc[self] IN
    /\ p.pc = "rf_check"
    /\ fs' = fs
    /\ IF ~hdfs_file_exists(fs, p.hpath)
       THEN Set(self, Done(p, "NotAFile", "none", <<>>))
       ELSE Set(self, [p EXCEPT !.pc = "rf_read"])

\* A read that treats undecodable bytes as an error whatever was requested
ReadFileRead_NoFallback(self) ==
    LET p == proc[self] IN
    /\ p.pc = "rf_read"
    /\ fs' = fs
    /\ IF ~hdfs_file_exists(fs, p.hpath) THEN Set(self, Raise(p, "open_r"))
       ELSE IF utf8_valid(fs[p.hpath].data)
       THEN Set(self, Done([p EXCEPT !.rfmt = "text"], "ok", "none",
                           decode_utf8(fs[p.hpath].data).text))
       ELSE Set(self, Done(p, "BadFormat", "none", <<>>))

ReadFileRead(self) ==
    LET p == proc[self]
        bcontent == fs[p.hpath].data
    IN
    /\ p.pc = "rf_read"
    /\ fs' = fs
    /\ IF ~hdfs_file_exists(fs, p.hpath) THEN Set(self, Raise(p, "open_r"))
       ELSE IF p.fmt \in {"none", "text"} /\ utf8_valid(bcontent)
       THEN Set(self, Done([p EXCEPT !.rfmt = "text"], "ok", "none",
                           decode_utf8(bcontent).text))
       ELSE IF p.fmt = "text"
       THEN Set(self, Done(p, "BadFormat", "none", <<>>))
       ELSE Set(self, Done([p EXCEPT !.rfmt = "base64"], "ok", "none",
                           encodebytes(bcontent)))

\* _read_notebook (hdfsio.py:291): open and parse
ReadNotebook(self) ==
    LET p == proc[self] IN
    /\ p.pc = "nb_read"
    /\ fs' = fs
    /\ IF ~hdfs_file_exists(fs, p.hpath) THEN Set(self, Raise(p, "open_r"))
       ELSE IF Parseable(fs[p.hpath].data)
       THEN Set(self, Done([p EXCEPT !.rfmt = "json"], "ok", "none", NbRead(fs[p.hpath].data)))
       ELSE Set(self, [p EXCEPT !.pc = "nb_probe"])

\* A probe that recovers whenever an intermediate exists, whatever the mode
ReadNotebookProbe_IgnoreMode(self) ==
    LET p == proc[self]
        tmp_path == path_to_intermediate(p.hpath)
    IN
    /\ p.pc = "nb_probe"
    /\ fs' = fs
    /\ IF ~hdfs_exists(fs, tmp_path)
       THEN Set(self, Done(p, "UnreadableDocument", "none", <<>>))
       ELSE Set(self, Call([p EXCEPT !.src = p.hpath, !.dst = path_to_invalid(p.hpath)],
                           "mv_check", <<"nb_promote">>))

\* A probe that reads the file again when there is nothing to recover from
ReadNotebookProbe_Reread(self) ==
    LET p == proc[self]
        tmp_path == path_to_intermediate(p.hpath)
    IN
    /\ p.pc = "nb_probe"
    /\ fs' = fs
    /\ IF ~use_atomic_writing \/ ~hdfs_exists(fs, tmp_path)
       THEN Set(self, [p EXCEPT !.pc = "nb_read"])
       ELSE Set(self, Call([p EXCEPT !.src = p.hpath, !.dst = path_to_invalid(p.hpath)],
                           "mv_check", <<"nb_promote">>))

\* hdfsio.py:303-313: look for an intermediate, move the bad file aside
ReadNotebookProbe(self) ==
    LET p == proc[self]
        tmp_path == path_to_intermediate(p.hpath)
    IN
    /\ p.pc = "nb_probe"
    /\ fs' = fs
    /\ IF ~use_atomic_writing \/ ~hdfs_exists(fs, tmp_path)
       THEN Set(self, Done(p, "UnreadableDocument", "none", <<>>))
       ELSE Set(self, Call([p EXCEPT !.src = p.hpath, !.dst = path_to_invalid(p.hpath)],
                           "mv_check", <<"nb_promote">>))

\* A promotion that copies the intermediate onto the path and leaves it there
ReadNotebookPromote_Copy(self) ==
    LET p == proc[self] IN
    /\ p.pc = "nb_promote"
    /\ fs' = fs
    /\ Set(self, Call([p EXCEPT !.src = path_to_intermediate(p.hpath), !.dst = p.hpath,
                                !.coff = 0, !.recovered = p.recovered + 1],
                      "cp_open_dst", <<"nb_read">>))

\* hdfsio.py:314-315: restore the intermediate and read again
ReadNotebookPromote(self) ==
    LET p == proc[self] IN
    /\ p.pc = "nb_promote"
    /\ fs' = fs
    /\ Set(self, Call([p EXCEPT !.src = path_to_intermediate(p.hpath), !.dst = p.hpath,
                                !.recovered = p.recovered + 1],
                      "mv_check", <<"nb_read">>))

(***************************************************************************)
(* Permission errors of the backend and perm_to_403 (hdfsio.py:265)        *)
(***************************************************************************)
\* The steps that run inside a perm_to_403 scope: the write scope of
\* _save_notebook and _save_file with its backup copy (hdfsio.py:257), the
\* directory creation of checkpoint_path (hdfscheckpoints.py:102), the move
\* of rename_checkpoint (hdfscheckpoints.py:62) and the removal of
\* delete_checkpoint (hdfscheckpoints.py:73)
Guarded(p) ==
    \/ p.pc \in {"aw_check", "aw_open", "aw_write", "aw_close", "aw_cleanup",
                 "rb_delete", "rb_move"}
    \/ p.pc \in {"cp_open_dst", "cp_open_src", "cp_chunk"} /\ p.stk # <<>>
            /\ Head(p.stk) = "aw_open"
    \/ p.pc \in {"ed_check", "ed_create"}
    \/ p.pc \in {"mv_check", "mv_delete", "mv_move"} /\ p.op = "rename_checkpoint"
    \/ p.pc = "dc_rm"

\* The steps at which the backend is asked to create, remove or move
DenyPoints == {"cp_open_dst", "aw_open", "ed_create", "mv_delete", "mv_move", "dc_rm"}

\* The backend refuses the call with EACCES: inside a perm_to_403 scope the
\* error becomes a 403, outside it travels on as any backend error does
BackendDenied(self) ==
    LET p == proc[self] IN
    /\ p.pc \in DenyPoints
    /\ fs' = fs
    /\ Set(self, IF Guarded(p) THEN Done(p, "PermissionDenied", "EACCES", <<>>)
                 ELSE Raise(p, "EACCES"))

(***************************************************************************)
(* The life of a request                                                   *)
(***************************************************************************)
\* The server process stops in the middle of a request: nothing of it runs
\* any more, the namespace stays as it is.
Crash(self) ==
    /\ proc[self].pc \notin {"idle", "done"}
    /\ fs' = fs
    /\ Set(self, Idle)

\* The result is handed to the caller.
Return(self) ==
    /\ proc[self].pc = "done"
    /\ fs' = fs
    /\ Set(self, Idle)

\* The steps of the helpers and of a save: they belong to every workload
HelperStep(self) ==
    \/ CopyOpenDst(self) \/ CopyOpenSrc(self) \/ CopyChunk(self)
    \/ EnsureCheck(self) \/ EnsureCreate(self)

SaveStep(self) ==
    \/ AtomicCheck(self) \/ WriteOpen(self) \/ WriteChunk(self) \/ WriteFault(self)
    \/ RollbackDelete(self) \/ RollbackMove(self) \/ WriteClose(self)
    \/ AtomicCleanup(self) \/ SaveListCheckpoints(self) \/ SaveGet(self)
    \/ CreateCopy(self)

MoveStep(self) == MoveCheck(self) \/ MoveDelete(self) \/ MoveMove(self)

GetStep(self) ==
    \/ GetCheck(self) \/ ReadFileCheck(self) \/ ReadFileRead(self)
    \/ ReadNotebook(self) \/ ReadNotebookProbe(self) \/ ReadNotebookPromote(self)

DocSaves == {r \in SaveRequests : r[2].type # "directory"}
DirSaves == {r \in SaveRequests : r[2].type = "directory"}
NbSaves == {r \in SaveRequests : r[2].type = "notebook"}

\* Writes and reads of one document by a server that may stop at any step
\* (hdfsio.py).
NextWrite ==
    \E self \in Procs :
        \/ \E r \in DocSaves : StartSave(self, r[1], r[2])
        \/ \E t \in {"none", "file"} : StartGet(self, NbApi, t, "none")
        \/ SaveStep(self) \/ HelperStep(self) \/ MoveStep(self) \/ GetStep(self)
        \/ Crash(self) \/ Return(self)

SpecWrite == Init /\ [][NextWrite]_vars

\* Saves and the five operations of the checkpoint store
\* (hdfscheckpoints.py).
NextCheckpoint ==
    \E self \in Procs :
        \/ \E r \in DocSaves : StartSave(self, r[1], r[2])
        \/ StartCreateCheckpoint(self, NbApi)
        \/ \E id \in CheckpointIds : StartRestoreCheckpoint(self, id, NbApi)
        \/ \E id \in CheckpointIds : StartRenameCheckpoint(self, id, NbApi, InvalidApi)
        \/ \E id \in CheckpointIds : StartRenameCheckpoint(self, id, InvalidApi, NbApi)
        \/ StartRenameCheckpoint(self, "checkpoint", NbApi, NbApi)
        \/ \E id \in CheckpointIds : StartDeleteCheckpoint(self, id, NbApi)
        \/ StartListCheckpoints(self, NbApi)
        \/ SaveStep(self) \/ HelperStep(self) \/ MoveStep(self)
        \/ RenameCheckpointCheck(self) \/ DeleteCheckpointCheck(self)
        \/ DeleteCheckpointRm(self) \/ ListCheckpointsCheck(self)
        \/ Return(self)

SpecCheckpoint == Init /\ [][NextCheckpoint]_vars

\* Generic files saved as text or base64 and read back in every format
\* (hdfsio.py _save_file, _read_file).
B64Saves ==
    {<<NbApi, [type |-> "file", has_content |-> TRUE, content |-> c, format |-> "base64"]>> :
        c \in B64Texts \cup {B64Broken}}
TextSaves == {r \in SaveRequests : r[2].type = "file"}

NextFormat ==
    \E self \in Procs :
        \/ \E r \in B64Saves \cup TextSaves : StartSave(self, r[1], r[2])
        \/ \E f \in {"none", "text", "base64"} : StartGet(self, NbApi, "file", f)
        \/ AtomicCheck(self) \/ WriteOpen(self) \/ WriteChunk(self)
        \/ WriteClose(self) \/ AtomicCleanup(self) \/ SaveGet(self)
        \/ CopyOpenDst(self) \/ CopyOpenSrc(self) \/ CopyChunk(self)
        \/ GetCheck(self) \/ ReadFileCheck(self) \/ ReadFileRead(self)
        \/ Return(self)

SpecFormat == Init /\ [][NextFormat]_vars

\* The operations that write or move, on a backend that may refuse a call
\* for lack of permission.
NextPerm ==
    \E self \in Procs :
        \/ \E r \in NbSaves : StartSave(self, r[1], r[2])
        \/ StartRename(self, NbApi, InvalidApi)
        \/ StartCreateCheckpoint(self, NbApi)
        \/ StartRestoreCheckpoint(self, "checkpoint", NbApi)
        \/ StartRenameCheckpoint(self, "checkpoint", NbApi, InvalidApi)
        \/ StartDeleteCheckpoint(self, "checkpoint", NbApi)
        \/ SaveStep(self) \/ HelperStep(self) \/ MoveStep(self)
        \/ RenameCheck(self) \/ RenameCheckpointCheck(self)
        \/ DeleteCheckpointCheck(self) \/ DeleteCheckpointRm(self)
        \/ BackendDenied(self)
        \/ Return(self)

SpecPerm == Init /\ [][NextPerm]_vars

\* The document store's save, get, delete and rename (hdfsmanager.py).
RenamePairs == {<<NbApi, InvalidApi>>, <<InvalidApi, NbApi>>, <<NbApi, NbApiSlashed>>,
                <<NbApi, NbApiInner>>,
                <<DirApi, NbApi>>, <<NbApi, DirApi>>}

NextStore ==
    \E self \in Procs :
        \/ \E r \in NbSaves \cup DirSaves \cup BadSaves : StartSave(self, r[1], r[2])
        \/ StartGet(self, DirApi, "none", "none")
        \/ \E a \in {NbApi, DirApi} : StartDelete(self, a)
        \/ \E r \in RenamePairs : StartRename(self, r[1], r[2])
        \/ SaveStep(self) \/ HelperStep(self) \/ GetCheck(self)
        \/ MoveCheck(self) \/ MoveMove(self)
        \/ SaveDirCheck(self) \/ SaveDirMkdir(self)
        \/ DeleteCheck(self) \/ DeleteRm(self) \/ RenameCheck(self)
        \/ Return(self)

SpecStore == Init /\ [][NextStore]_vars

\* Two servers on one namespace: the saves of w1 and the reads of w2 of one
\* document interleave backend call by backend call.  The namespace starts
\* empty or as the first save of a notebook leaves it.
SavedFS(nb) ==
    LET h == to_os_path(NbApi, root_dir)
        cp == CpFileOf("checkpoint", NbApi)
        data == encode_utf8(NbWrites(nb))
    IN  [hdfs_open_w(hdfs_open_w(EmptyFS, h), cp) EXCEPT
            ![h] = FileEntry(data), ![cp] = FileEntry(data)]

InitConc ==
    /\ fs \in {EmptyFS} \cup {SavedFS(nb) : nb \in Notebooks}
    /\ proc = [w \in Procs |-> Idle]
    /\ use_atomic_writing \in BOOLEAN
    /\ multi = TRUE
    /\ nops = 0
    /\ obs = [created |-> NoCreated, stopped |-> NoStopped, saved |-> NoSaved]

NextConc ==
    \E self \in Procs :
        \/ \E r \in DocSaves : self = "w1" /\ StartSave(self, r[1], r[2])
        \/ \E t \in {"none", "file"} : self = "w2" /\ StartGet(self, NbApi, t, "none")
        \/ SaveStep(self) \/ HelperStep(self) \/ GetStep(self)
        \/ MoveCheck(self) \/ MoveMove(self)   \* no invalid file to delete within MaxOps
        \/ Return(self)

SpecConc == InitConc /\ [][NextConc]_vars

(***************************************************************************)
(* Properties                                                              *)
(***************************************************************************)
DataAt(f, path) == f[path].data

\* A save whose write scope was left by an error, with atomic writing
FailedAtomicWrite(p) ==
    /\ p.pc = "done" /\ p.op = "save" /\ p.typ \in {"notebook", "file"}
    /\ p.cause \in {"write_fault", "rollback"}
    /\ use_atomic_writing

\* C1: with atomic writing on, when an error escapes the write scope of a
\* write to a path that held a file with content C0, after part of the new
\* content C1 was written, then once the write has returned the path holds
\* exactly C0 or exactly C1.
C1_RollbackRestores ==
    \A w \in Procs :
        LET p == proc[w] IN
        (FailedAtomicWrite(p) /\ hdfs_file_exists(p.pre, p.hpath))
            => /\ hdfs_file_exists(fs, p.hpath)
               /\ DataAt(fs, p.hpath) \in {DataAt(p.pre, p.hpath), p.content}

\* A failed write over a different old content, after a chunk was written
C1_Witness ==
    \E w \in Procs :
        LET p == proc[w] IN
        /\ FailedAtomicWrite(p) /\ hdfs_file_exists(p.pre, p.hpath)
        /\ p.woff > 0 /\ p.woff < Len(p.content)
        /\ DataAt(p.pre, p.hpath) # p.content
        /\ SubSeq(p.content, 1, p.woff) # DataAt(p.pre, p.hpath)
        /\ DataAt(fs, p.hpath) = DataAt(p.pre, p.hpath)

\* The positions of a save inside the write scope, before any error
InWriteScope(p) ==
    /\ p.op = "save" /\ p.typ \in {"notebook", "file"}
    /\ p.pc \in {"aw_check", "cp_open_dst", "cp_open_src", "cp_chunk",
                 "aw_open", "aw_write", "aw_close", "aw_cleanup"}

\* What a get returns for a document of the given type holding data
ContentOf(typ, data) == IF typ = "notebook" THEN NbRead(data) ELSE decode_utf8(data).text

\* C2: with atomic writing on, a reader of a path during another request's
\* write of a notebook to that path, which held a notebook before, gets the
\* complete old content or the complete new content, never an empty or
\* partially written file.
C2_ReaderSeesOldOrNew ==
    LET r == proc["w2"]
        w == proc["w1"]
    IN  (/\ use_atomic_writing
         /\ InWriteScope(w) /\ w.typ = "notebook"
         /\ hdfs_file_exists(w.pre, w.hpath)
         /\ r.pc = "done" /\ r.op = "get" /\ r.hpath = w.hpath)
            => /\ r.status = "ok"
               /\ r.result \in {ContentOf(r.typ, DataAt(w.pre, w.hpath)),
                                ContentOf(r.typ, w.content)}

\* A save whose write scope has completed without error: all the content is
\* written, the handle closed and the cleanup done
WriteScopeDone(p) ==
    /\ p.op = "save" /\ p.typ \in {"notebook", "file"}
    /\ p.pc \notin {"idle", "aw_close", "aw_cleanup"}
    /\ Len(p.content) > 0 /\ p.woff = Len(p.content)

\* C3: with atomic writing on, after a write to p that completes without
\* error no file exists at the intermediate path of p, whether this write
\* made the intermediate or an earlier interrupted write left it there.
C3_NoIntermediateAfterWrite ==
    \A w \in Procs :
        (use_atomic_writing /\ WriteScopeDone(proc[w]))
            => ~hdfs_exists(fs, path_to_intermediate(proc[w].hpath))

\* A completed write that made no backup and found an intermediate left over
C3_Witness ==
    \E w \in Procs :
        LET p == proc[w] IN
        /\ use_atomic_writing /\ WriteScopeDone(p)
        /\ ~hdfs_exists(p.pre, p.hpath)
        /\ hdfs_file_exists(p.pre, path_to_intermediate(p.hpath))

\* C4: with atomic writing on, when the server stops in the middle of a
\* write over an existing document (backup made, target partly written, no
\* rollback), the next get of the document returns exactly the old content
\* or exactly the new content, for a notebook and for a generic file.
C4_ReadAfterStoppedWrite ==
    \A w \in Procs :
        LET p == proc[w]
            st == obs.stopped
        IN  (/\ use_atomic_writing /\ st.valid /\ st.old # <<>>
             /\ p.pc = "done" /\ p.op = "get" /\ p.hpath = st.path
             /\ p.typ = "notebook" => Parseable(st.old))
                => /\ p.status = "ok"
                   /\ p.result \in {ContentOf(p.typ, st.old), ContentOf(p.typ, st.new)}

\* The two namespaces agree outside the given paths
SameExcept(f, g, paths) ==
    \A q \in (DOMAIN f \cup DOMAIN g) \ paths :
        q \in DOMAIN f /\ q \in DOMAIN g /\ f[q] = g[q]

\* C5: with atomic writing on, reading an unparseable notebook at p that has
\* a valid intermediate moves the bad file to the invalid-marker path,
\* promotes the intermediate onto p and returns the intermediate's content;
\* reading a parseable notebook (as p is after that repair) returns its
\* content and changes nothing in the filesystem.
C5_RecoveryIdempotent ==
    \A w \in Procs :
        LET p == proc[w]
            h == p.hpath
            tmp == path_to_intermediate(h)
            inv == path_to_invalid(h)
        IN  (use_atomic_writing /\ p.pc = "done" /\ p.op = "get" /\ p.typ = "notebook"
             /\ hdfs_file_exists(p.pre, h))
            => /\ (/\ ~Parseable(DataAt(p.pre, h))
                   /\ hdfs_file_exists(p.pre, tmp) /\ Parseable(DataAt(p.pre, tmp)))
                    => /\ p.status = "ok" /\ p.recovered = 1
                       /\ p.result = NbRead(DataAt(p.pre, tmp))
                       /\ hdfs_file_exists(fs, inv) /\ fs[inv] = p.pre[h]
                       /\ hdfs_file_exists(fs, h) /\ fs[h] = p.pre[tmp]
                       /\ ~hdfs_exists(fs, tmp)
                       /\ SameExcept(fs, p.pre, {h, tmp, inv})
               /\ Parseable(DataAt(p.pre, h))
                    => /\ p.status = "ok" /\ p.recovered = 0
                       /\ p.result = NbRead(DataAt(p.pre, h))
                       /\ fs = p.pre

\* The second read after a repair: the invalid-marker file is there, the
\* intermediate is gone, and the read has returned the promoted content
C5_Witness ==
    \E w \in Procs :
        LET p == proc[w]
            h == p.hpath
            tmp == path_to_intermediate(h)
            inv == path_to_invalid(h)
        IN  /\ use_atomic_writing /\ p.pc = "done" /\ p.op = "get" /\ p.typ = "notebook"
            /\ hdfs_file_exists(p.pre, h) /\ Parseable(DataAt(p.pre, h))
            /\ hdfs_file_exists(p.pre, inv) /\ ~Parseable(DataAt(p.pre, inv))
            /\ ~hdfs_exists(p.pre, tmp)
            /\ p.status = "ok" /\ p.result = NbRead(DataAt(p.pre, h)) /\ fs = p.pre

\* C6: after create(d) at content C, any successful saves of d and then
\* restore("checkpoint", d), the content of d is exactly C.
C6_CheckpointRoundTrip ==
    \A w \in Procs :
        LET p == proc[w] IN
        (/\ p.pc = "done" /\ p.op = "restore_checkpoint" /\ p.cid = "checkpoint"
         /\ p.status = "ok"
         /\ obs.created.valid /\ obs.created.path = p.hpath)
            => /\ hdfs_file_exists(fs, p.hpath)
               /\ DataAt(fs, p.hpath) = obs.created.data

\* A restore that brought back a content the saves had replaced
C6_Witness ==
    \E w \in Procs :
        LET p == proc[w] IN
        /\ p.pc = "done" /\ p.op = "restore_checkpoint" /\ p.cid = "checkpoint"
        /\ p.status = "ok"
        /\ obs.created.valid /\ obs.created.path = p.hpath
        /\ hdfs_file_exists(p.pre, p.hpath)
        /\ DataAt(p.pre, p.hpath) # obs.created.data
        /\ DataAt(fs, p.hpath) = obs.created.data

\* The checkpoint files of a document, under any id
CheckpointFilesOf(f, apath) ==
    {q \in DOMAIN f : f[q].kind = "file" /\ \E id \in CheckpointIds : q = CpFileOf(id, apath)}

\* C7: whatever saves, creates, restores, checkpoint renames and checkpoint
\* deletes have run, each document has at most one checkpoint file; and a
\* create for a document that already has a checkpoint leaves exactly one,
\* holding the document's content at that create.
C7_SingleCheckpoint ==
    /\ \A a \in {NbApi, InvalidApi} : Cardinality(CheckpointFilesOf(fs, a)) <= 1
    /\ \A w \in Procs :
        LET p == proc[w] IN
        (/\ p.pc = "done" /\ p.op = "create_checkpoint" /\ p.status = "ok"
         /\ CheckpointFilesOf(p.pre, p.path) # {})
            => /\ CheckpointFilesOf(fs, p.path) = {CpFileOf("checkpoint", p.path)}
               /\ hdfs_file_exists(p.pre, p.hpath)
               /\ DataAt(fs, CpFileOf("checkpoint", p.path)) = DataAt(p.pre, p.hpath)

\* A second create that replaced a checkpoint of a different content
C7_Witness ==
    \E w \in Procs :
        LET p == proc[w]
            cp == CpFileOf("checkpoint", p.path)
        IN  /\ p.pc = "done" /\ p.op = "create_checkpoint" /\ p.status = "ok"
            /\ hdfs_file_exists(p.pre, cp) /\ hdfs_file_exists(p.pre, p.hpath)
            /\ DataAt(p.pre, cp) # DataAt(p.pre, p.hpath)
            /\ CheckpointFilesOf(fs, p.path) = {cp}
            /\ DataAt(fs, cp) = DataAt(p.pre, p.hpath)

\* C8: right after every successful save of a notebook at p, whether or not
\* p had a checkpoint before, list(p) returns exactly one checkpoint entry.
C8_CheckpointAfterSave ==
    \A w \in Procs :
        LET p == proc[w] IN
        (p.pc = "done" /\ p.op = "save" /\ p.typ = "notebook" /\ p.status = "ok")
            => Len(list_checkpoints(fs, p.path)) = 1

\* A successful notebook save of a document that had no checkpoint
C8_Witness ==
    \E w \in Procs :
        LET p == proc[w] IN
        /\ p.pc = "done" /\ p.op = "save" /\ p.typ = "notebook" /\ p.status = "ok"
        /\ hdfs_file_exists(p.pre, p.hpath)
        /\ list_checkpoints(p.pre, p.path) = <<>>
        /\ Len(list_checkpoints(fs, p.path)) = 1

\* C9: rename(a, b) with a and b different after stripping and an entry
\* already at b fails with AlreadyExists and changes no backend path;
\* rename(a, a) returns without error and changes no backend path.
C9_RenameSafety ==
    \A w \in Procs :
        LET p == proc[w] IN
        (p.pc = "done" /\ p.op = "rename")
            => /\ (p.path # p.path2 /\ hdfs_exists(p.pre, p.hpath2))
                    => (p.status = "AlreadyExists" /\ fs = p.pre)
               /\ p.path = p.path2
                    => (p.status = "ok" /\ fs = p.pre)

\* A rename of a notebook onto another existing entry, refused
C9_Witness ==
    \E w \in Procs :
        LET p == proc[w] IN
        /\ p.pc = "done" /\ p.op = "rename"
        /\ p.path # p.path2 /\ p.hpath # p.hpath2
        /\ hdfs_file_exists(p.pre, p.hpath) /\ hdfs_exists(p.pre, p.hpath2)
        /\ p.status = "AlreadyExists" /\ fs = p.pre

\* C10: delete of a directory that is empty or holds only the checkpoint
\* subdirectory succeeds and removes the directory with everything below
\* it; delete of a directory with any other entry fails with
\* DirectoryNotEmpty and removes nothing.
C10_DirectoryDeleteGuard ==
    \A w \in Procs :
        LET p == proc[w] IN
        (p.pc = "done" /\ p.op = "delete" /\ _hdfs_dir_exists(p.pre, p.hpath))
            => IF hdfs_ls(p.pre, p.hpath) \subseteq {checkpoint_dir}
               THEN /\ p.status = "ok"
                    /\ fs = hdfs_delete(p.pre, p.hpath)
                    /\ \A q \in DOMAIN fs : ~IsPrefix(p.hpath, q)
               ELSE p.status = "DirectoryNotEmpty" /\ fs = p.pre

\* A directory holding only a checkpoint subdirectory with a checkpoint
\* in it has been deleted
C10_Witness ==
    \E w \in Procs :
        LET p == proc[w] IN
        /\ p.pc = "done" /\ p.op = "delete" /\ _hdfs_dir_exists(p.pre, p.hpath)
        /\ hdfs_ls(p.pre, p.hpath) = {checkpoint_dir}
        /\ hdfs_file_exists(p.pre, CpFileOf("checkpoint", NbApi))
        /\ p.status = "ok" /\ ~hdfs_exists(fs, p.hpath)

\* C11: after a generic file was written from the base64 text of bytes b,
\* a read with no format returns the decoded text and "text" when b is
\* valid UTF-8 and the base64 text and "base64" when it is not; a read with
\* format "text" of bytes that are not valid UTF-8 fails with BadFormat.
C11_FormatFallback ==
    \A w \in Procs : \A b \in BinaryContents :
        LET p == proc[w] IN
        (/\ p.pc = "done" /\ p.op = "get" /\ p.typ = "file"
         /\ obs.saved.valid /\ obs.saved.path = p.hpath
         /\ obs.saved.fmt = "base64" /\ obs.saved.arg = encodebytes(b))
            => /\ (p.fmt = "none" /\ decode_utf8(b).ok)
                    => /\ p.status = "ok" /\ p.rfmt = "text"
                       /\ encode_utf8(p.result) = b
               /\ (p.fmt = "none" /\ ~decode_utf8(b).ok)
                    => /\ p.status = "ok" /\ p.rfmt = "base64"
                       /\ p.result = encodebytes(b)
               /\ (p.fmt = "text" /\ ~decode_utf8(b).ok)
                    => p.status = "BadFormat"

\* A read with no format of saved bytes that are not valid UTF-8 has come
\* back as base64
C11_Witness ==
    \E w \in Procs : \E b \in BinaryContents :
        LET p == proc[w] IN
        /\ p.pc = "done" /\ p.op = "get" /\ p.typ = "file" /\ p.fmt = "none"
        /\ obs.saved.valid /\ obs.saved.path = p.hpath
        /\ obs.saved.fmt = "base64" /\ obs.saved.arg = encodebytes(b)
        /\ ~decode_utf8(b).ok /\ Len(b) = MaxLen
        /\ p.status = "ok" /\ p.rfmt = "base64" /\ p.result = encodebytes(b)

\* C12: restore with an id other than "checkpoint", for which no checkpoint
\* file exists, fails with CheckpointNotFound.
C12_RestoreUnknownId ==
    \A w \in Procs :
        LET p == proc[w] IN
        (/\ p.pc = "done" /\ p.op = "restore_checkpoint" /\ p.cid # "checkpoint"
         /\ ~hdfs_exists(p.pre, CpFileOf(p.cid, p.path)))
            => p.status = "CheckpointNotFound"

\* The files of a namespace, with their content
FilesOf(f) == [q \in {r \in DOMAIN f : f[r].kind = "file"} |-> f[q]]

\* C13: a checkpoint delete for a document without a checkpoint file fails
\* with CheckpointNotFound and changes no file; with a checkpoint file it
\* removes exactly that file, the document and the checkpoints of other
\* documents stay as they were, and list(d) is empty afterwards.
C13_DeleteCheckpoint ==
    \A w \in Procs :
        LET p == proc[w]
            cp == CpFileOf(p.cid, p.path)
        IN  (p.pc = "done" /\ p.op = "delete_checkpoint")
            => IF hdfs_file_exists(p.pre, cp)
               THEN /\ p.status = "ok"
                    /\ FilesOf(fs) = FilesOf(hdfs_delete(p.pre, cp))
                    /\ p.cid = "checkpoint" => list_checkpoints(fs, p.path) = <<>>
               ELSE /\ p.status = "CheckpointNotFound"
                    /\ FilesOf(fs) = FilesOf(p.pre)

\* A checkpoint was deleted beside the document and another document's
\* checkpoint
C13_Witness ==
    \E w \in Procs :
        LET p == proc[w]
            cp == CpFileOf(p.cid, p.path)
            other == CpFileOf("checkpoint", InvalidApi)
        IN  /\ p.pc = "done" /\ p.op = "delete_checkpoint" /\ p.status = "ok"
            /\ hdfs_file_exists(p.pre, cp) /\ hdfs_file_exists(p.pre, p.hpath)
            /\ cp # other /\ hdfs_file_exists(p.pre, other)
            /\ ~hdfs_exists(fs, cp)
            /\ fs[p.hpath] = p.pre[p.hpath] /\ fs[other] = p.pre[other]

\* C14: a checkpoint rename from old to new, when old has a checkpoint file,
\* returns with the checkpoint of new holding exactly what the checkpoint of
\* old held and no checkpoint left for old (where that is another file);
\* when old has none, it returns without error and no file is created,
\* changed or removed.
C14_RenameCheckpoint ==
    \A w \in Procs :
        LET p == proc[w]
            old_cp == CpFileOf(p.cid, p.path)
            new_cp == p.dst
        IN  (p.pc = "done" /\ p.op = "rename_checkpoint")
            => IF hdfs_file_exists(p.pre, old_cp)
               THEN /\ p.status = "ok"
                    /\ hdfs_file_exists(fs, new_cp)
                    /\ DataAt(fs, new_cp) = DataAt(p.pre, old_cp)
                    /\ old_cp # new_cp => ~hdfs_exists(fs, old_cp)
               ELSE /\ p.status = "ok"
                    /\ FilesOf(fs) = FilesOf(p.pre)

\* C15: a save refused with MissingField or InvalidArgument changes nothing
\* in the backend: every path keeps its existence, kind and content, and no
\* intermediate file appears.
C15_RejectedSaveNoMutation ==
    \A w \in Procs :
        LET p == proc[w] IN
        (p.pc = "done" /\ p.op = "save" /\ p.status \in {"MissingField", "InvalidArgument"})
            => /\ fs = p.pre
               /\ hdfs_exists(fs, path_to_intermediate(p.hpath))
                    => hdfs_exists(p.pre, path_to_intermediate(p.hpath))

\* A save of a file with a bad format over an existing document was refused
C15_Witness ==
    \E w \in Procs :
        LET p == proc[w] IN
        /\ p.pc = "done" /\ p.op = "save" /\ p.typ = "file"
        /\ p.status = "InvalidArgument" /\ p.cause = "format"
        /\ hdfs_file_exists(p.pre, p.hpath) /\ DataAt(p.pre, p.hpath) # <<>>
        /\ fs = p.pre /\ ~hdfs_exists(fs, path_to_intermediate(p.hpath))

\* C16: a permission error of the backend at a write or move step of a
\* save of a file or notebook, a rename, a checkpoint create, restore,
\* rename or delete reaches the caller as PermissionDenied; and what these
\* report as PermissionDenied was a permission error of the backend.
C16_PermissionMapping ==
    \A w \in Procs :
        LET p == proc[w] IN
        (/\ p.pc = "done"
         /\ \/ p.op = "save" /\ p.typ \in {"notebook", "file"}
            \/ p.op \in {"rename", "create_checkpoint", "restore_checkpoint",
                         "rename_checkpoint", "delete_checkpoint"})
            => /\ p.cause = "EACCES" => p.status = "PermissionDenied"
               /\ p.status = "PermissionDenied" => p.cause = "EACCES"

\* C17: with atomic writing on, when an error escapes the write scope of a
\* write to a path that held nothing (so no backup was made), the rollback
\* puts nothing onto the path, the path is absent again as before the
\* write, and the caller receives the original error, not one raised by the
\* rollback.
C17_RollbackWithoutBackup ==
    \A w \in Procs :
        LET p == proc[w] IN
        (FailedAtomicWrite(p) /\ ~hdfs_exists(p.pre, p.hpath))
            => /\ ~hdfs_exists(fs, p.hpath)
               /\ p.cause = "write_fault"

\* The complete contents the requests write
CompleteContents ==
    {encode_utf8(NbWrites(nb)) : nb \in Notebooks} \cup {encode_utf8(t) : t \in Texts}

\* C18: whenever no write is in progress, also after a writer has stopped
\* in the middle of one, either the document has no intermediate, or the
\* document holds a complete content written before and the intermediate
\* holds a complete backup.
C18_IntermediateInvariant ==
    LET h == to_os_path(NbApi, root_dir)
        tmp == path_to_intermediate(h)
    IN  ((\A w \in Procs : proc[w].pc = "idle") /\ hdfs_exists(fs, tmp))
            => /\ hdfs_file_exists(fs, h) /\ DataAt(fs, h) \in CompleteContents
               /\ hdfs_file_exists(fs, tmp) /\ DataAt(fs, tmp) \in CompleteContents

(***************************************************************************)
(* C19: one recovery per read, and the read ends                           *)
(***************************************************************************)
\* A read runs to its end once started: the handler is synchronous code
\* without waiting, so each of its steps is taken when it is the next one
\* (hdfsio.py:291-315, hdfsmanager.py:243-281).
SpecRecover ==
    Init /\ [][NextWrite]_vars
         /\ WF_vars(\E self \in Procs : GetStep(self) \/ MoveStep(self))

\* The read of a notebook whose promoted intermediate did not parse either
SecondFailure(p) ==
    /\ p.op = "get" /\ p.typ = "notebook" /\ p.pc = "done" /\ p.recovered = 1
    /\ hdfs_file_exists(fs, p.hpath) /\ ~Parseable(DataAt(fs, p.hpath))

\* C19: a get of a notebook moves the unparseable file aside and promotes
\* the intermediate at most once; when the promoted intermediate does not
\* parse either the get fails with UnreadableDocument; and every get that
\* has started comes to its end (or its server stops).
C19_SingleRecovery ==
    /\ [](\A w \in Procs :
            /\ proc[w].recovered <= 1
            /\ SecondFailure(proc[w]) => proc[w].status = "UnreadableDocument")
    /\ \A w \in Procs :
          (proc[w].op = "get" /\ proc[w].pc \notin {"idle", "done"})
              ~> (proc[w].pc \in {"idle", "done"})

C19_Witness ==
    \E w \in Procs :
        /\ SecondFailure(proc[w])
        /\ proc[w].status = "UnreadableDocument"
        /\ ~hdfs_exists(fs, path_to_intermediate(proc[w].hpath))
        /\ hdfs_file_exists(fs, path_to_invalid(proc[w].hpath))

(***************************************************************************)
(* C20: a read that cannot recover changes nothing                         *)
(***************************************************************************)
\* use_atomic_writing is a configuration option (hdfsio.py:160): the server
\* is started again with another value while the namespace keeps what the
\* earlier run left in it.
Reconfigure ==
    /\ \A w \in Procs : proc[w].pc = "idle"
    /\ use_atomic_writing' \in BOOLEAN \ {use_atomic_writing}
    /\ UNCHANGED <<fs, proc, multi, nops, obs>>

\* Saves and reads of one notebook by a server that may stop at any step
\* and be started again with the other write mode
NextConfig ==
    \/ \E self \in Procs :
        \/ \E r \in NbSaves : StartSave(self, r[1], r[2])
        \/ \E t \in {"none", "file"} : StartGet(self, NbApi, t, "none")
        \/ SaveStep(self) \/ HelperStep(self) \/ MoveStep(self) \/ GetStep(self)
        \/ Crash(self) \/ Return(self)
    \/ Reconfigure

SpecConfig == Init /\ [][NextConfig]_vars

\* The get of a notebook that did not parse when the request started, with
\* recovery off or nothing to recover from
CannotRecover(p) ==
    /\ p.op = "get" /\ p.typ = "notebook" /\ p.pc # "idle"
    /\ hdfs_file_exists(p.pre, p.hpath) /\ ~Parseable(DataAt(p.pre, p.hpath))
    /\ ~use_atomic_writing \/ ~hdfs_exists(p.pre, path_to_intermediate(p.hpath))

\* C20: when the notebook at the path does not parse and either
\* use_atomic_writing is off or no intermediate exists, the get changes
\* nothing in the namespace at any of its steps (the file stays, no
\* .invalid file appears, an intermediate is left as it is) and it ends
\* with UnreadableDocument.
C20_NoRecoveryNoMutation ==
    \A w \in Procs :
        CannotRecover(proc[w])
            => /\ fs = proc[w].pre
               /\ proc[w].recovered = 0
               /\ proc[w].pc = "done" => proc[w].status = "UnreadableDocument"

C20_Witness ==
    \E w \in Procs :
        /\ CannotRecover(proc[w]) /\ proc[w].pc = "done"
        /\ proc[w].status = "UnreadableDocument"
        /\ ~use_atomic_writing
        /\ hdfs_file_exists(fs, path_to_intermediate(proc[w].hpath))
        /\ ~hdfs_exists(fs, path_to_invalid(proc[w].hpath))

(***************************************************************************)
(* C21: a rename racing with a save to its new path                        *)
(***************************************************************************)
\* The namespace after a notebook was saved and renamed to its .invalid
\* name (its checkpoint stays behind), and after the same with a text file
\* (a save of type file makes no checkpoint)
RenamedFS(nb) ==
    hdfs_move(SavedFS(nb), to_os_path(NbApi, root_dir), to_os_path(InvalidApi, root_dir))

RenamedTextFS(t) ==
    LET inv == to_os_path(InvalidApi, root_dir)
    IN  [hdfs_open_w(EmptyFS, inv) EXCEPT ![inv] = FileEntry(encode_utf8(t))]

InitRace ==
    /\ fs \in {RenamedFS(nb) : nb \in Notebooks} \cup {RenamedTextFS(t) : t \in Texts}
    /\ proc = [w \in Procs |-> Idle]
    /\ use_atomic_writing \in BOOLEAN
    /\ multi = TRUE
    /\ nops = 0
    /\ obs = [created |-> NoCreated, stopped |-> NoStopped, saved |-> NoSaved]

\* Two servers on one namespace: w1 renames the .invalid file back while w2
\* saves a notebook at the new path (hdfsmanager.py:368-386, 283-335).
NextRace ==
    \E self \in Procs :
        \/ self = "w1" /\ StartRename(self, InvalidApi, NbApi)
        \/ \E r \in NbSaves : self = "w2" /\ StartSave(self, r[1], r[2])
        \/ RenameCheck(self) \/ MoveStep(self)
        \/ SaveStep(self) \/ HelperStep(self)
        \/ Return(self)

SpecRace == InitRace /\ [][NextRace]_vars

\* A step of the request of w
StepOf(w) == proc'[w] # proc[w]

\* C21: no step of a rename deletes or replaces an entry found at its new
\* path: whatever another request has put there stays as it is.
C21_RenameNeverOverwrites ==
    [][\A w \in Procs :
          (proc[w].op = "rename" /\ StepOf(w) /\ hdfs_exists(fs, proc[w].hpath2))
              => (hdfs_exists(fs', proc[w].hpath2)
                    /\ fs'[proc[w].hpath2] = fs[proc[w].hpath2])]_vars

(***************************************************************************)
(* C22: _hdfs_ensure_dir_exists called by two servers at once              *)
(***************************************************************************)
\* The namespace after a text file was saved at the document's path (no
\* checkpoint directory yet), and after another text file was saved under
\* the name of the checkpoint directory (save makes no hidden-name test for
\* files, hdfsmanager.py:311-313)
TextSavedFS(t) ==
    LET h == to_os_path(NbApi, root_dir)
    IN  [hdfs_open_w(EmptyFS, h) EXCEPT ![h] = FileEntry(encode_utf8(t))]

BlockedFS(t) ==
    LET cp_dir == CpDirOf(NbApi)
    IN  [hdfs_open_w(TextSavedFS(t), cp_dir) EXCEPT ![cp_dir] = FileEntry(encode_utf8(t))]

InitEnsure ==
    /\ fs \in {SavedFS(nb) : nb \in Notebooks}
            \cup {TextSavedFS(t) : t \in Texts} \cup {BlockedFS(t) : t \in Texts}
    /\ proc = [w \in Procs |-> Idle]
    /\ use_atomic_writing \in BOOLEAN
    /\ multi = TRUE
    /\ nops = 0
    /\ obs = [created |-> NoCreated, stopped |-> NoStopped, saved |-> NoSaved]

\* Two servers on one namespace create and list the checkpoint of one
\* document: each request goes through checkpoint_path and so through
\* _hdfs_ensure_dir_exists (hdfscheckpoints.py:100-105).
NextEnsure ==
    \E self \in Procs :
        \/ StartCreateCheckpoint(self, NbApi)
        \/ StartListCheckpoints(self, NbApi)
        \/ EnsureCheck(self) \/ EnsureCreate(self)
        \/ CreateCopy(self) \/ CopyOpenDst(self) \/ CopyOpenSrc(self) \/ CopyChunk(self)
        \/ ListCheckpointsCheck(self)
        \/ Return(self)

SpecEnsure == InitEnsure /\ [][NextEnsure]_vars

InEnsure(p) == p.pc \in {"ed_check", "ed_create"}

EnsureFailed(p) == p.cause \in {"not_a_directory", "mkdir"}

\* C22: for a request that goes through _hdfs_ensure_dir_exists on the
\* checkpoint directory while another server does the same:
\*  - with no file at the directory's path the call does not fail, and once
\*    it has returned the directory exists;
\*  - with a file at the directory's path the call fails as soon as it has
\*    tested the path, with "exists but is not a directory", and the file
\*    stays as it was;
\*  - no step of the call changes the namespace when the directory exists
\*    already or a file holds its path.
C22_EnsureDirectory ==
    /\ [](\A w \in Procs :
            LET p == proc[w]
                cp_dir == CpDirOf(p.path)
            IN  p.op \in {"create_checkpoint", "list_checkpoints"} =>
                  /\ ~hdfs_file_exists(p.pre, cp_dir)
                        => /\ ~EnsureFailed(p)
                           /\ ~InEnsure(p) => _hdfs_dir_exists(fs, cp_dir)
                  /\ hdfs_file_exists(p.pre, cp_dir)
                        => /\ p.pc # "ed_check" => (p.pc = "done" /\ p.cause = "not_a_directory")
                           /\ hdfs_file_exists(fs, cp_dir) /\ fs[cp_dir] = p.pre[cp_dir])
    /\ [][\A w \in Procs :
            (InEnsure(proc[w]) /\ StepOf(w) /\ hdfs_exists(fs, Head(proc[w].dirs)))
                => fs' = fs]_vars

\* One server is about to create the directory it found absent while the
\* other, which found it absent too, has created it and gone on
C22_Witness ==
    \E w, v \in Procs :
        LET cp_dir == CpDirOf(NbApi) IN
        /\ w # v
        /\ proc[w].pc = "ed_create" /\ ~hdfs_exists(proc[w].pre, cp_dir)
        /\ proc[v].op = "create_checkpoint" /\ proc[v].pc \in {"cc_copy", "cp_open_dst"}
        /\ ~hdfs_exists(proc[v].pre, cp_dir)
        /\ _hdfs_dir_exists(fs, cp_dir)

(***************************************************************************)
(* C23: two writers of one path                                            *)
(***************************************************************************)
\* Two servers with atomic writing on save notebooks to one path that
\* holds a saved notebook: their backup copies, writes and rollbacks
\* interleave backend call by backend call (hdfsio.py:89-110).
InitWriters ==
    /\ fs \in {SavedFS(nb) : nb \in Notebooks}
    /\ proc = [w \in Procs |-> Idle]
    /\ use_atomic_writing = TRUE
    /\ multi = TRUE
    /\ nops = 0
    /\ obs = [created |-> NoCreated, stopped |-> NoStopped, saved |-> NoSaved]

NextWriters ==
    \E self \in Procs :
        \/ \E r \in NbSaves : StartSave(self, r[1], r[2])
        \/ AtomicCheck(self) \/ CopyOpenDst(self) \/ CopyOpenSrc(self) \/ CopyChunk(self)
        \/ WriteOpen(self) \/ WriteChunk(self) \/ WriteFault(self)
        \/ RollbackDelete(self) \/ RollbackMove(self)
        \/ WriteClose(self) \/ AtomicCleanup(self)
        \/ EnsureCheck(self) \/ SaveListCheckpoints(self) \/ SaveGet(self)
        \/ Return(self)

SpecWriters == InitWriters /\ [][NextWriters]_vars

\* The content the path held before either writer started: the checkpoint
\* made with the first save holds it, and no save replaces a checkpoint
ContentBeforeWriters == DataAt(fs, CpFileOf("checkpoint", NbApi))

\* C23: a rollback puts on the path what the intermediate holds at that
\* moment, whoever wrote it there; this differs from what the path held
\* when the writer started only when another save has started besides it.
\* (The witness is the state the claim says exists.)
C23_RollbackInstallsIntermediate ==
    [][\A w \in Procs :
          LET p == proc[w]
              tmp == path_to_intermediate(p.hpath)
          IN  (p.pc = "rb_move" /\ StepOf(w) /\ proc'[w].cause = "write_fault")
                => /\ hdfs_file_exists(fs, tmp) /\ hdfs_file_exists(fs', p.hpath)
                   /\ DataAt(fs', p.hpath) = DataAt(fs, tmp)
                   /\ ~hdfs_exists(fs', tmp)
                   /\ (~hdfs_file_exists(p.pre, p.hpath)
                         \/ DataAt(fs', p.hpath) # DataAt(p.pre, p.hpath)) => nops > 1]_vars

\* Both writers have finished, one of them by a rollback, and the path
\* holds neither the content from before nor the complete content of a
\* writer, or holds no file at all
C23_Witness ==
    LET h == to_os_path(NbApi, root_dir) IN
    /\ \A w \in Procs : proc[w].pc = "done" /\ proc[w].op = "save"
    /\ \E w \in Procs : proc[w].cause = "write_fault"
    /\ \/ ~hdfs_file_exists(fs, h)
       \/ DataAt(fs, h) \notin {ContentBeforeWriters} \cup {proc[w].content : w \in Procs}

(***************************************************************************)
(* C24: the type of the model that get builds                              *)
(***************************************************************************)
TextModels == {m \in SaveModels : m.type = "file"}

GetTypes == {"none", "file", "notebook", "directory"}

\* One server saves a notebook at d/n.ipynb and a text file at
\* d/n.ipynb.invalid and gets each of them, and the directory, with every
\* type a caller can ask for (hdfsmanager.py:243-281).
NextGet ==
    \E self \in Procs :
        \/ \E r \in NbSaves : StartSave(self, r[1], r[2])
        \/ \E m \in TextModels : StartSave(self, InvalidApi, m)
        \/ \E a \in {NbApi, InvalidApi, DirApi}, t \in GetTypes : StartGet(self, a, t, "none")
        \/ SaveStep(self) \/ HelperStep(self)
        \/ GetCheck(self) \/ ReadFileCheck(self) \/ ReadFileRead(self)
        \/ ReadNotebook(self) \/ ReadNotebookProbe(self)
        \/ Return(self)

SpecGet == Init /\ [][NextGet]_vars

\* get's dispatch on a target that exists and is not a directory
DispatchesFile(w) ==
    /\ proc[w].op = "get" /\ proc[w].pc = "gt_check" /\ StepOf(w)
    /\ hdfs_exists(fs, proc[w].hpath) /\ ~_hdfs_dir_exists(fs, proc[w].hpath)

\* C24 as stated: a get of an existing target that is not a directory goes
\* on as a notebook whenever the name ends in .ipynb or the type asked for is
\* notebook, whatever the type asked for among none, file and notebook; as a
\* file otherwise; and fails with BadType when a directory was asked for.
C24_NotebookByNameOrType ==
    [][\A w \in Procs :
          LET req == proc[w].typ
              nb == req = "notebook" \/ endswith_ipynb(proc[w].path)
          IN  DispatchesFile(w)
                => IF req = "directory" THEN proc'[w].status = "BadType"
                   ELSE proc'[w].typ = IF nb THEN "notebook" ELSE "file"]_vars

\* C24 amended: the name decides only when no type was asked for.  The get
\* goes on as a notebook when the type asked for is notebook, or when no
\* type was asked for and the name ends in .ipynb; as a file otherwise (a
\* notebook asked for as a file is returned as a file); it fails with
\* BadType when a directory was asked for.  A get that has gone on as a
\* notebook returns the parsed document, one that has gone on as a file
\* returns text or base64.
C24_NotebookByTypeThenName ==
    /\ [][\A w \in Procs :
            LET req == proc[w].typ
                nb == req = "notebook" \/ (req = "none" /\ endswith_ipynb(proc[w].path))
            IN  DispatchesFile(w)
                  => IF req = "directory" THEN proc'[w].status = "BadType"
                     ELSE /\ proc'[w].typ = IF nb THEN "notebook" ELSE "file"
                          /\ proc'[w].pc = IF nb THEN "nb_read" ELSE "rf_check"]_vars
    /\ [](\A w \in Procs :
            (proc[w].op = "get" /\ proc[w].pc = "done" /\ proc[w].status = "ok")
                => /\ proc[w].typ = "notebook" => proc[w].rfmt = "json"
                   /\ proc[w].typ = "file" => proc[w].rfmt \in {"text", "base64"})

\* A notebook asked for as a file and returned as text
C24_Witness ==
    \E w \in Procs :
        /\ proc[w].op = "get" /\ proc[w].pc = "done" /\ proc[w].status = "ok"
        /\ endswith_ipynb(proc[w].path)
        /\ proc[w].typ = "file" /\ proc[w].rfmt = "text"
        /\ proc[w].result = ContentOf("file", DataAt(fs, proc[w].hpath))

(***************************************************************************)
(* C25: a copy whose source is missing                                     *)
(***************************************************************************)
\* A checkpoint create or restore whose copy failed on opening the source
CopySourceMissing(p) ==
    /\ p.pc = "done" /\ p.op \in {"create_checkpoint", "restore_checkpoint"}
    /\ p.cause = "open_r"

\* C25: when the copy of a checkpoint create or restore fails because its
\* source does not exist, its destination is as it was before the request:
\* not created, and with the content it had.
C25_MissingSourceKeepsDestination ==
    \A w \in Procs :
        LET p == proc[w] IN
        CopySourceMissing(p)
            => /\ hdfs_exists(fs, p.dst) <=> hdfs_exists(p.pre, p.dst)
               /\ hdfs_exists(p.pre, p.dst) => fs[p.dst] = p.pre[p.dst]

(***************************************************************************)
(* C26: a save leaves an existing checkpoint alone                         *)
(***************************************************************************)
CheckpointOps == {"create_checkpoint", "rename_checkpoint", "delete_checkpoint"}

\* The checkpoint file of the notebook
NbCheckpoint == CpFileOf("checkpoint", NbApi)

WroteAll(p) ==
    p.op = "save" /\ Len(p.content) > 0 /\ p.woff = Len(p.content)

\* C27: after a server stopped in the middle of a write over a document of
\* content C0 (backup made, target partly written), during the request that
\* follows and until it has returned, a read or a write that has not written
\* all of its content, C0 is held complete by the path or by its
\* intermediate; so a write that fails and rolls back leaves C0 at the path.
C27_BackupSurvives ==
    LET st == obs.stopped
        tmp == path_to_intermediate(st.path)
    IN  (st.valid /\ \A w \in Procs : ~WroteAll(proc[w]))
            => \/ hdfs_file_exists(fs, st.path) /\ DataAt(fs, st.path) = st.old
               \/ hdfs_file_exists(fs, tmp) /\ DataAt(fs, tmp) = st.old

(***************************************************************************)
(* C28: a checkpoint copy racing with a save                               *)
(***************************************************************************)
\* Two servers on one namespace that holds a saved notebook and its
\* checkpoint, with atomic writing on: w1 saves the notebook while w2
\* creates or restores its checkpoint; the copy and the write interleave
\* backend call by backend call (hdfscheckpoints.py:37-49, hdfsio.py:49-59,
\* 89-106).  No write fails here.
NextCopyRace ==
    \E self \in Procs :
        \/ \E r \in NbSaves : self = "w1" /\ StartSave(self, r[1], r[2])
        \/ self = "w2" /\ StartCreateCheckpoint(self, NbApi)
        \/ self = "w2" /\ StartRestoreCheckpoint(self, "checkpoint", NbApi)
        \/ AtomicCheck(self) \/ WriteOpen(self) \/ WriteChunk(self)
        \/ WriteClose(self) \/ AtomicCleanup(self)
        \/ EnsureCheck(self) \/ SaveListCheckpoints(self) \/ SaveGet(self)
        \/ CreateCopy(self) \/ CopyOpenDst(self) \/ CopyOpenSrc(self) \/ CopyChunk(self)
        \/ Return(self)

SpecCopyRace == InitWriters /\ [][NextCopyRace]_vars

\* The complete contents of a notebook file
CompleteNotebooks == {encode_utf8(NbWrites(nb)) : nb \in Notebooks}

\* C28: when a checkpoint create or a restore of "checkpoint" has returned
\* without error, on a document that existed when it started, and no
\* request is in progress any more, the destination of its copy holds one
\* complete version of the document.
C28_CopyRacingSave ==
    \A w \in Procs :
        LET p == proc[w] IN
        (/\ p.pc = "done" /\ p.op \in {"create_checkpoint", "restore_checkpoint"}
         /\ p.status = "ok"
         /\ hdfs_file_exists(p.pre, p.src) /\ DataAt(p.pre, p.src) \in CompleteNotebooks
         /\ \A v \in Procs : proc[v].pc \in {"idle", "done"})
            => /\ hdfs_file_exists(fs, p.dst)
               /\ DataAt(fs, p.dst) \in CompleteNotebooks

==============================================================================
